---------------------------- MODULE Spec2Model ----------------------------
(***************************************************************************)
(* A model of the conversation orchestration and progression engine of     *)
(* sugar_ai_backend: the duplicate-delivery filter of handle_message, the  *)
(* turn pipeline of ChatOrchestrator.generate_response with its typing     *)
(* task and poll loops, and the progression update _update_meta_data with  *)
(* its artifact (card) write and its read-modify-write of the channel      *)
(* document.                                                               *)
(*                                                                         *)
(* Each group of operations has a specification of its own over the same   *)
(* variables:                                                              *)
(*   SpecDedup  message.new events against the processed-message cache     *)
(*   SpecMeta   concurrent _update_meta_data executions on one channel     *)
(*   SpecTurn   one turn of handle_message / generate_response             *)
(* A step of a specification is what a coroutine runs between two          *)
(* suspension points (await of I/O); asyncio runs such a stretch without   *)
(* interleaving.                                                           *)
(***************************************************************************)
EXTENDS Integers, Sequences, FiniteSets, TLC

(***************************************************************************)
(* Bounds of the model.                                                    *)
(***************************************************************************)
\* message.new events delivered in one run of SpecDedup
MaxEvents == 4
\* the clock of SpecDedup stops here (seconds)
MaxClock == 400
\* seconds the clock advances in one Tick
TickSeconds == 100
\* capacity of the processed-message cache in the model; the program builds
\* it with maxsize=5000 (chat_cache_service.py:22)
MaxProcessed == 2
\* calls of update_and_cache_channel_data in one run of SpecDoc, and how
\* many may be in flight at once
MaxUpdates == 3
NWriters == 2
\* calls on the message cache in one run of SpecMsg, and how many
\* fetch_and_cache_messages calls may be in flight at once
MaxCalls == 3
NFetchers == 1
\* calls of fetch_and_cache_character in one run of SpecChar, and of
\* fetch_and_cache_channel_data in one run of SpecChan
MaxFetches == 2
\* calls of store_and_cache_user_channel_data in one run of SpecCreate
MaxCreates == 2
\* tiers of the ladders of SpecLevels, and the scores they are asked for
MaxLadder == 3
\* the scores go this far below zero
ScoresBelowZero == 2
MinScore == 0 - ScoresBelowZero
MaxScore == 9
\* SpecModes: the turns that may run at once, and the turns started in all
NModeTurns == 1
MaxModeTurns == 2
\* SpecPlugins: the handle_event calls made in all
MaxDispatches == 2
\* SpecExpiry: the clock stops here (seconds), the seconds it advances in one
\* step, and the turns made in all
MaxCacheClock == 43200
CacheTickSeconds == 7200
MaxCacheTurns == 3
NHandlers == 2
MaxAiEvents == 2
ReadCacheSize == 2
MaxReads == 3
\* executions of _update_meta_data started in one run of SpecMeta
MaxTurns == 2
\* turns that may be in flight on the channel at once
NProcs == 2
\* seconds the event loop's clock advances in one TurnTick of SpecTurn
TurnTick == 60

(***************************************************************************)
(* Program constants.                                                      *)
(***************************************************************************)
PROCESSED_REQUEST_TTL == 300
\* ChatCacheService.TTL_SECONDS and MAX_CACHE_SIZE: the message cache
TTL_SECONDS == 21600
MAX_CACHE_SIZE == 1000
\* wait_for_completion(request_id, max_wait_time=180, check_interval=1)
max_wait_time == 180
check_interval == 1
\* maintain_typing(channel_id, character_id, interval=5, ...)
interval == 5
\* ChatCacheService.MAX_MESSAGES: turns kept in one chat_history
MAX_MESSAGES == 30
\* FetchCacheService.MAX_MESSAGES: limit of get_channel_messages
FetchCacheService_MAX_MESSAGES == 20
\* the prefix of the sender id of an AI character
AI_PREFIX == <<"a", "i", "-">>

(***************************************************************************)
(* Identifiers of the events of SpecDedup.  The handler takes them from    *)
(* the event as arbitrary strings: channel_id is event_data["channel_id"]  *)
(* or, failing that, message["cid"], which has the form "type:id".         *)
(***************************************************************************)
HumanIds == {"u1"}
ChannelIds == {"messaging", "messaging:ch"}
MessageIds == {"m1", "ch:m1"}
Triples == HumanIds \X ChannelIds \X MessageIds

(***************************************************************************)
(* The channel of SpecMeta: one user, one channel, one character whose     *)
(* stored ladder (in store order, not yet sorted) has an unlock card on    *)
(* its second tier.  The score deltas are those the scoring request may    *)
(* return.                                                                 *)
(***************************************************************************)
Procs == 1..NProcs
UserId == "u1"
ChannelId == "ch1"
CharacterId == "aria"
RawLevels == <<[intimacy |-> 10, title |-> "friend", hasCard |-> TRUE],
               [intimacy |-> 0, title |-> "acquainted", hasCard |-> FALSE],
               [intimacy |-> 20, title |-> "lover", hasCard |-> FALSE]>>
Tiers == 1..Len(RawLevels)
Deltas == {-10, 10}

(***************************************************************************)
(* The turn of SpecTurn.  The chat modes are written in ASCII:             *)
(*   "peiban"   the companion mode, which sends no scoring request         *)
(*   "xiaoshuo" the novel mode                                             *)
(*   "guanka"   the level mode, which does not update the progression      *)
(*   "gushi"    the story mode, the handler's default when the message     *)
(*              carries no chatMode                                        *)
(* RESPONSE_MODEL_KEYS are the keys of ChatOrchestrator.RESPONSE_MODEL.    *)
(***************************************************************************)
ChatModes == {"peiban", "xiaoshuo", "guanka", "gushi"}
RESPONSE_MODEL_KEYS == {"tietu", "xiaoshuo", "jianxun", "kaiche", "peiban",
                        "qinmidu", "guanka", "user_persona"}
\* the fixed apology of the except clause, and the text appended for a
\* response type that is not recognised
APOLOGY == "hen bao qian, wo zan shi wu fa hui ying. qing shao hou zai shi."
UNRECOGNISED == "hui ying ge shi wu fa bian shi"
GENERATED == "generated text"
\* what one get_chat_result may answer: pending, completed with a non-empty
\* message, completed with no message, completed with an unknown response
\* type, status error, None (aiohttp.ClientError), or another exception
PollAnswers == {"pending", "completed", "completed_empty", "completed_unknown",
                "error", "none", "raised"}
\* what one send_chat_request may return: a dict with a request_id, a dict
\* without one, or None
SubmitAnswers == {"ok", "noid", "none"}
Requests == {"chat", "intimacy"}

VARIABLES
    now,                 \* the timer the TTL caches read (seconds)
    processed_messages,  \* ChatCacheService._processed_messages: links, oldest first
    runs,                \* history: triple -> times generate_response was started for it
    lastMark,            \* history: triple -> time of its last mark_message_as_processed, -1 if none
    lastEvent,           \* history: the last event handled: [triple, skipped, fresh, at]
    delivered,           \* history: the triples delivered so far
    events,              \* number of events delivered so far
    channel_doc,         \* store: meta_data of the document channels/{channel_id}
    channel_cache,       \* user_channel_data_cache: key -> <<>> or <<meta_data>>
    character_cache,     \* character_cache entry of the character: <<>> or <<levels>>
    card_doc,            \* store: user_card_collections/{user_id}: [exists, cards]
    pc,                  \* where each _update_meta_data execution is suspended
    loc,                 \* the local variables of each execution
    started,             \* history: executions of _update_meta_data started so far
    attempts,            \* history: tier -> executions that called update_dict_field for its card
    committed,           \* history: tier -> artifact writes committed for its card
    rewrites,            \* history: commits for a tier by an execution begun after an earlier commit for it
    turn_pc,             \* where the turn's coroutine (plugin, handler, generate_response) is
    turn_in,             \* the turn's inputs: chat_mode and what the context load found
    stop_typing_event,   \* the asyncio.Event of the turn
    typing_task,         \* maintain_typing: [pc, remaining]
    submitted,           \* request -> "off", "pending" or the answer of send_chat_request
    poll,                \* request -> wait_for_completion: [pc, elapsed, remaining, result, only_pending]
    response,            \* what generate_response did: [state, text, response_type, usage]
    sent_messages,       \* the texts passed to send_message
    failures             \* history: the stages of the turn at which something failed

dedupVars == <<now, processed_messages, runs, lastMark, lastEvent, delivered, events>>
turnVars == <<turn_pc, turn_in, stop_typing_event, typing_task, submitted, poll,
              response, sent_messages, failures>>
metaVars == <<channel_doc, channel_cache, character_cache, card_doc, pc, loc,
              started, attempts, committed, rewrites>>

VARIABLES
    doc_fields,          \* store: top-level field -> value of a channel document
    doc_cached,          \* user_channel_data_cache entry of that channel: field -> value
    upd,                 \* each update_and_cache_channel_data call: [pc, field, value, raw]
    updates              \* history: calls of update_and_cache_channel_data so far

docVars == <<doc_fields, doc_cached, upd, updates>>

VARIABLES
    message_cache,       \* ChatCacheService.message_cache: key -> [chat_history, current_message]
    fetch,               \* each fetch_and_cache_messages call: [pc, role, text, hit, messages]
    next_text,           \* texts created so far; a text is the number of its creation
    truncations,         \* history: calls that dropped turns of a chat_history
    calls                \* history: calls on the message cache so far

msgVars == <<message_cache, fetch, next_text, truncations, calls>>
VARIABLES
    characters_doc,      \* store: the record Characters/{character_id}
    character_entries,   \* ChatCacheService.character_cache: character id -> entry
    character_call,      \* the fetch_and_cache_character call: [pc, request_locale, hit, result]
    character_calls      \* history: calls of fetch_and_cache_character so far

charVars == <<characters_doc, character_entries, character_call, character_calls>>

VARIABLES
    channels_doc,        \* store: the document channels/{channel_id}
    channel_entries,     \* user_channel_data_cache: key -> channel data
    channel_call,        \* the fetch_and_cache_channel_data call: [pc, hit, raw, result]
    channel_calls        \* history: calls of fetch_and_cache_channel_data so far

chanVars == <<channels_doc, channel_entries, channel_call, channel_calls>>

VARIABLES
    created_entries,     \* user_channel_data_cache as create_channel fills it: key -> payload
    created_doc,         \* store: the document channels/{channel_id} create_channel writes
    create_call,         \* the store_and_cache_user_channel_data call: [pc, channel_data, raised]
    creates              \* history: calls of store_and_cache_user_channel_data so far

createVars == <<created_entries, created_doc, create_call, creates>>

VARIABLES
    level_eval           \* the ladder of the cached character, the total asked for
                         \* and what the level functions gave for it and before it

(***************************************************************************)
(* The turns of SpecModes: generate_response as far as it touches the      *)
(* channel state, for turns of any chat mode on the channel of SpecMeta    *)
(* (whose channel_doc, channel_cache and card_doc they read and write).    *)
(***************************************************************************)
VARIABLES
    mode_turn,           \* each turn: [pc, chat_mode, raw, intimacy, new_meta, new_card]
    state_writes,        \* history: the channel-state writes made: [chat_mode, target, fill]
    mode_returned,       \* history: the chat modes of the turns that returned from line 153
    mode_turns           \* history: turns started so far

modeVars == <<mode_turn, state_writes, mode_returned, mode_turns>>

(***************************************************************************)
(* PluginManager of SpecPlugins.  A dict is the sequence of its keys in    *)
(* insertion order with the function of its values.                        *)
(***************************************************************************)
VARIABLES
    plugins,             \* PluginManager._plugins: the plugin names, in insertion order
    dispatch,            \* the handle_event call: [pc, target, plugins, i, results, invoked, raised]
    dispatches           \* history: calls of handle_event so far

plugVars == <<plugins, dispatch, dispatches>>

(***************************************************************************)
(* The message cache of SpecExpiry with its timer: the TTLCache itself,    *)
(* where SpecMsg has the entries only.                                     *)
(***************************************************************************)
VARIABLES
    cache_now,           \* the timer the message cache reads (seconds)
    message_links,       \* ChatCacheService.message_cache: links, oldest first
    turn_hist,           \* history: key -> [last, short]: the time of the last turn on
                         \* the key (-1 if none), and whether every gap between
                         \* consecutive turns on it was shorter than the TTL
    cache_turns          \* history: turns so far

expiryVars == <<cache_now, message_links, turn_hist, cache_turns>>

\* SpecCharPair: a second fetch_and_cache_character call on the character of
\* SpecChar, in flight at the same time: [pc, request_locale, hit, result]
VARIABLES character_other

\* SpecSum: history: the sum of the deltas of the executions of
\* _update_meta_data started so far
VARIABLES delta_sum

\* the variables of SpecSum and of the specifications after it
\* SpecAi: AsyncStreamChatPlugin._handle_new_message for events of AI and of
\* human senders.  handler[h] is the position and the event of the coroutine
\* h; message_entries is ChatCacheService.message_cache with all its keys;
\* effects counts the events delivered, the inference requests submitted,
\* the channel-state updates started and the events and messages sent out.
VARIABLES handler, message_entries, effects
aiVars == <<handler, message_entries, effects>>

\* SpecTitles: the ladder cached for a character whose tiers may share
\* titles, and the last evaluation of lines 667-754 on it:
\* [levels, evaluated, total, old_lock_level, result]
VARIABLES tier_eval

\* SpecRead: ChatCacheService.user_channel_data_cache as its links, oldest
\* first (message_links is the message cache); history: the last call made
\* on a cache, [op, key, absent]; history: the calls made so far
VARIABLES channel_links, last_read, read_ops
readVars == <<channel_links, last_read, read_ops>>

lastVars == <<delta_sum, aiVars, tier_eval, readVars>>
\* the variables of the specifications added last
lateVars == <<modeVars, plugVars, expiryVars, character_other, lastVars>>
\* the variables of the specifications added after these
moreVars == <<createVars, level_eval, lateVars>>
\* what the actions of SpecCreate and of SpecLevels leave alone among them
createRest == <<level_eval, lateVars>>
levelsRest == <<createVars, lateVars>>
\* what the actions of SpecModes leave alone, metaVars apart
modeRest == <<dedupVars, turnVars, docVars, msgVars, charVars, chanVars,
              createVars, level_eval, plugVars, expiryVars, character_other, lastVars>>
\* what the actions of SpecPlugins leave alone
plugRest == <<dedupVars, metaVars, turnVars, docVars, msgVars, charVars, chanVars,
              createVars, level_eval, modeVars, expiryVars, character_other, lastVars>>
\* what the actions of SpecExpiry leave alone
expiryRest == <<dedupVars, metaVars, turnVars, docVars, msgVars, charVars, chanVars,
                createVars, level_eval, modeVars, plugVars, character_other, lastVars>>
\* what the actions of the second call of SpecCharPair leave alone
pairRest == <<dedupVars, metaVars, turnVars, docVars, msgVars, chanVars,
              createVars, level_eval, modeVars, plugVars, expiryVars, lastVars>>
coreVars == <<dedupVars, metaVars, turnVars>>
\* the variables of the specifications other than SpecDedup, SpecMeta, SpecTurn
extVars == <<docVars, msgVars, charVars, chanVars, moreVars>>
\* what the actions of SpecDoc, SpecMsg, SpecChar and SpecChan leave alone
docRest == <<coreVars, msgVars, charVars, chanVars, moreVars>>
msgRest == <<coreVars, docVars, charVars, chanVars, moreVars>>
charRest == <<coreVars, docVars, msgVars, chanVars, moreVars>>
chanRest == <<coreVars, docVars, msgVars, charVars, moreVars>>
\* the variables of SpecDoc, SpecMsg, SpecChar and SpecChan
fetchVars == <<docVars, msgVars, charVars, chanVars>>

(***************************************************************************)
(* cachetools.TTLCache, as ChatCacheService uses it.  A cache is the       *)
(* sequence of its links [key, value, expires] in link order: the head is  *)
(* the next one evicted.                                                   *)
(***************************************************************************)
Keys(cache) == {cache[i].key : i \in 1..Len(cache)}

\* TTLCache.expire: drop every link whose expiry is not after t
TTLExpire(cache, t) == SelectSeq(cache, LAMBDA e : t < e.expires)

\* TTLCache.__contains__: the key has a link that has not expired; no reordering
TTLContains(cache, k, t) ==
    \E i \in 1..Len(cache) : cache[i].key = k /\ t < cache[i].expires

\* TTLCache.__setitem__: expire, evict from the head while the cache is full
\* and the key is new, then (re)link the key at the tail with a fresh expiry
TTLSetItem(cache, k, v, t, maxsize, ttl) ==
    LET live == TTLExpire(cache, t)
        over == IF k \in Keys(live) THEN 0 ELSE Len(live) + 1 - maxsize
        kept == IF over > 0 THEN SubSeq(live, over + 1, Len(live)) ELSE live
        rest == SelectSeq(kept, LAMBDA e : e.key # k)
    IN  Append(rest, [key |-> k, value |-> v, expires |-> t + ttl])

(***************************************************************************)
(* ChatCacheService: the processed-message record.                         *)
(***************************************************************************)
\* key = f"{user_id}:{channel_id}:{message_id}"
processed_key(user_id, channel_id, message_id) ==
    user_id \o ":" \o channel_id \o ":" \o message_id

has_processed_message(cache, t, user_id, channel_id, message_id) ==
    TTLContains(cache, processed_key(user_id, channel_id, message_id), t)

mark_message_as_processed(cache, t, user_id, channel_id, message_id) ==
    TTLSetItem(cache, processed_key(user_id, channel_id, message_id), TRUE, t,
               MaxProcessed, PROCESSED_REQUEST_TTL)

(***************************************************************************)
(* The level ladder of a character.  The character cache holds it as the   *)
(* dict levels = {"1": lvl, ..., "n": lvl} in insertion order; the model   *)
(* holds it as the sequence of its values, the key of levels[i] being the  *)
(* decimal string of i.                                                    *)
(***************************************************************************)
\* sorted(levels_raw, key=lambda level: level['intimacy']): a stable sort
RECURSIVE SortedByIntimacy(_)
SortedByIntimacy(raw) ==
    IF raw = <<>> THEN <<>>
    ELSE LET rest == SortedByIntimacy(SubSeq(raw, 1, Len(raw) - 1))
             x == raw[Len(raw)]
             before == SelectSeq(rest, LAMBDA l : l.intimacy <= x.intimacy)
             after == SelectSeq(rest, LAMBDA l : l.intimacy > x.intimacy)
         IN  before \o <<x>> \o after

\* utils.get_current_level_title: the title of the greatest key whose
\* threshold total_intimacy has reached, "" when it has reached none
\* get_current_level_title keeping the first key that is reached
get_current_level_title_lowest(levels, total_intimacy) ==
    LET reached == {i \in 1..Len(levels) : total_intimacy >= levels[i].intimacy}
    IN  IF reached = {} THEN ""
        ELSE levels[CHOOSE i \in reached : \A j \in reached : i <= j].title

get_current_level_title(levels, total_intimacy) ==
    LET reached == {i \in 1..Len(levels) : total_intimacy >= levels[i].intimacy}
    IN  IF reached = {} THEN ""
        ELSE levels[CHOOSE i \in reached : \A j \in reached : j <= i].title

\* the first key, in dict order, whose level satisfies P; 0 when none does
FirstKey(levels, P(_)) ==
    LET hits == {i \in 1..Len(levels) : P(levels[i])}
    IN  IF hits = {} THEN 0 ELSE CHOOSE i \in hits : \A j \in hits : i <= j

\* the order of Python's str comparison on the titles of the model
TitleOrder == <<"", "acquainted", "friend", "lover", "soulmate">>
TitleBefore(a, b) ==
    \E i, j \in 1..Len(TitleOrder) : i < j /\ TitleOrder[i] = a /\ TitleOrder[j] = b

\* utils.get_next_level_title: the title of the candidate (threshold above
\* total_intimacy) that sorts first as (intimacy, title); with no candidate,
\* the title of the first level holding the greatest positive threshold
get_next_level_title(levels, total_intimacy) ==
    LET cands == {i \in 1..Len(levels) : total_intimacy < levels[i].intimacy}
        least == CHOOSE i \in cands : \A j \in cands :
                    \/ levels[i].intimacy < levels[j].intimacy
                    \/ /\ levels[i].intimacy = levels[j].intimacy
                       /\ (levels[i].title = levels[j].title => i <= j)
                       /\ (levels[i].title # levels[j].title =>
                              TitleBefore(levels[i].title, levels[j].title))
        top == {i \in 1..Len(levels) :
                   /\ levels[i].intimacy > 0
                   /\ \A j \in 1..Len(levels) : levels[j].intimacy <= levels[i].intimacy}
    IN  IF cands # {} THEN levels[least].title
        ELSE IF top = {} THEN ""
        ELSE levels[CHOOSE i \in top : \A j \in top : i <= j].title

\* Python's round() of the exact quotient num / den (den > 0): half to even
RoundHalfEven(num, den) ==
    LET q == num \div den
        r == num % den
    IN  IF 2 * r < den THEN q
        ELSE IF 2 * r > den THEN q + 1
        ELSE IF q % 2 = 0 THEN q ELSE q + 1

Min(a, b) == IF a < b THEN a ELSE b
Max(a, b) == IF a > b THEN a ELSE b

\* get_card_id numbering the card by the position of the level in the
\* sorted list, which starts at 0, instead of by its key
get_card_id_by_index(levels, level_num, character_id) ==
    IF level_num \notin 1..Len(levels) THEN ""
    ELSE IF levels[level_num].hasCard
         THEN character_id \o "-card-" \o ToString(level_num - 1)
         ELSE ""

\* ChatOrchestrator.get_card_id: f"{character_id}-card-{level_num}" when the
\* level exists and has hasCard set, None ("") otherwise
get_card_id(levels, level_num, character_id) ==
    IF level_num \notin 1..Len(levels) THEN ""
    ELSE IF levels[level_num].hasCard
         THEN character_id \o "-card-" \o ToString(level_num)
         ELSE ""

(***************************************************************************)
(* AsyncMessageHandler.handle_message up to its first await, for an event  *)
(* of a human sender: the duplicate check and the mark, after which        *)
(* generate_response is started.  Nothing later in the handler reads or    *)
(* writes _processed_messages.                                             *)
(***************************************************************************)
HandleMessageDedup(u, c, m) ==
    /\ events < MaxEvents
    /\ events' = events + 1
    /\ delivered' = delivered \cup {<<u, c, m>>}
    /\ IF has_processed_message(processed_messages, now, u, c, m)
       THEN /\ lastEvent' = [triple |-> <<u, c, m>>, skipped |-> TRUE,
                              fresh |-> <<u, c, m>> \notin delivered, at |-> now]
            /\ UNCHANGED <<processed_messages, runs, lastMark>>
       ELSE /\ processed_messages' =
                   mark_message_as_processed(processed_messages, now, u, c, m)
            /\ lastMark' = [lastMark EXCEPT ![<<u, c, m>>] = now]
            /\ runs' = [runs EXCEPT ![<<u, c, m>>] = Append(@, now)]
            /\ lastEvent' = [triple |-> <<u, c, m>>, skipped |-> FALSE,
                              fresh |-> <<u, c, m>> \notin delivered, at |-> now]
    /\ UNCHANGED now
    /\ UNCHANGED <<metaVars, turnVars, extVars>>

Tick ==
    /\ now + TickSeconds <= MaxClock
    /\ now' = now + TickSeconds
    /\ UNCHANGED <<processed_messages, runs, lastMark, lastEvent, delivered, events>>
    /\ UNCHANGED <<metaVars, turnVars, extVars>>

(***************************************************************************)
(* ChatOrchestrator._update_meta_data, lines 651-749: from the old         *)
(* meta_data, the ladder and the score delta to the new meta_data and the  *)
(* card to issue.  write is false when no key of the ladder carries the    *)
(* current title: the function then ends without storing anything.         *)
(***************************************************************************)
\* lines 686-690 without min(100, max(0, ...))
percentage_of_unclamped(total_intimacy, current_threshold, has_next, next_threshold) ==
    IF has_next /\ next_threshold > current_threshold
    THEN RoundHalfEven((total_intimacy - current_threshold) * 100,
                       next_threshold - current_threshold)
    ELSE 100

\* lines 684-693: intimacy_percentage
percentage_of(total_intimacy, current_threshold, has_next, next_threshold) ==
    IF has_next /\ next_threshold > current_threshold
    THEN Min(100, Max(0, RoundHalfEven((total_intimacy - current_threshold) * 100,
                                       next_threshold - current_threshold)))
    ELSE 100

\* the test of line 711 with != in place of >
advances_on_change(level_key, old_lock_level) ==
    level_key # 0 /\ level_key # old_lock_level

\* line 711: level_num > old_lock_level, for a level_key that was found
advances(level_key, old_lock_level) == level_key # 0 /\ level_key > old_lock_level

compute_meta(old_meta_data, levels, intimacy) ==
    LET total_intimacy == old_meta_data.total_intimacy + intimacy
        current_level == get_current_level_title(levels, total_intimacy)
        next_level == get_next_level_title(levels, total_intimacy)
        level_key == FirstKey(levels, LAMBDA l : l.title = current_level)
        current_threshold == IF level_key = 0 THEN 0 ELSE levels[level_key].intimacy
        next_key == FirstKey(levels, LAMBDA l : l.title = next_level
                                                /\ l.intimacy > current_threshold)
        next_threshold == IF next_key = 0 THEN 0 ELSE levels[next_key].intimacy
        old_lock_level == old_meta_data.lock_level
        advance == advances(level_key, old_lock_level)
        level_num == IF advance THEN level_key ELSE old_lock_level
    IN  [write |-> level_key # 0,
         advance |-> advance,
         new_card |-> IF advance THEN get_card_id(levels, level_key, CharacterId) ELSE "",
         meta_data |-> [intimacy |-> intimacy,
                        total_intimacy |-> total_intimacy,
                        current_level |-> current_level,
                        next_level |-> next_level,
                        intimacy_percentage |->
                            percentage_of(total_intimacy, current_threshold,
                                          next_key # 0, next_threshold),
                        lock_level |-> level_num]]

\* ChannelOrchestrator.create_channel: the meta_data of a new channel document
InitialMeta(levels) ==
    [intimacy |-> 0, total_intimacy |-> 0, intimacy_percentage |-> 0,
     current_level |-> get_current_level_title(levels, 0),
     next_level |-> get_next_level_title(levels, 0),
     lock_level |-> 1]

(***************************************************************************)
(* Two bindings FetchCacheService relies on and the services do not        *)
(* provide as called.  It addresses the channel-state entry by the channel *)
(* id alone (has_channel_data_cache(channel_id), get_channel_data(         *)
(* channel_id), store_channel_data(channel_id, data)), while               *)
(* ChatCacheService declares these methods with (user_id, channel_id) and  *)
(* keys the cache by f"{user_id}:{channel_id}"; and it reads the character *)
(* with firebase_service.query_document, which AsyncFirebaseService does   *)
(* not define.  Both are taken from the specification: the channel state   *)
(* is keyed by the channel id, and the character read returns the stored   *)
(* record of the character with its ladder.                                *)
(***************************************************************************)
channel_data_key(channel_id) == channel_id

query_document(character_id) == [character_id |-> character_id, levels |-> RawLevels]

\* the key of the channel of SpecMeta
ChannelKey == channel_data_key(ChannelId)

NoLocals ==
    [intimacy |-> 0, old_meta_data |-> <<>>, raw |-> <<>>, new_card |-> "",
     tier |-> 0, new_meta |-> <<>>, snapshot_exists |-> FALSE, seen |-> {},
     card_failed |-> FALSE]

(***************************************************************************)
(* ChatOrchestrator._update_meta_data as the coroutine runs it: one action *)
(* per stretch between two awaits of store I/O, and one per access of the  *)
(* worker thread (asyncio.to_thread) to the store.  A cache hit does not   *)
(* suspend.  The operators Finish, Compute and Proceed are the tails       *)
(* shared by those stretches; cc and lc are the channel-state entry and    *)
(* the character entry as the stretch has left them so far.                *)
(***************************************************************************)
\* the execution ends: normally, or in the except clause of line 756
Finish(p, cc, lc) ==
    /\ pc' = [pc EXCEPT ![p] = "idle"]
    /\ loc' = [loc EXCEPT ![p] = NoLocals]
    /\ channel_cache' = [channel_cache EXCEPT ![ChannelKey] = cc]
    /\ character_cache' = lc
    /\ UNCHANGED attempts

\* lines 667-754 up to the next await: the card write of a tier advance, or
\* else update_and_cache_channel_data up to its get_document
Compute(p, l, cc, lc) ==
    LET r == compute_meta(l.old_meta_data[1], lc[1], l.intimacy)
    IN  IF ~r.write THEN Finish(p, cc, lc)
        ELSE IF r.new_card # ""
        THEN /\ pc' = [pc EXCEPT ![p] = "card_snapshot"]
             /\ loc' = [loc EXCEPT ![p] = [l EXCEPT !.new_card = r.new_card,
                                                     !.tier = r.meta_data.lock_level,
                                                     !.new_meta = <<r.meta_data>>]]
             /\ attempts' = [attempts EXCEPT ![r.meta_data.lock_level] = @ + 1]
             /\ channel_cache' = [channel_cache EXCEPT ![ChannelKey] = cc]
             /\ character_cache' = lc
        ELSE /\ pc' = [pc EXCEPT ![p] = "doc_get"]
             /\ loc' = [loc EXCEPT ![p] = [l EXCEPT !.new_meta = <<r.meta_data>>]]
             /\ channel_cache' = [channel_cache EXCEPT ![ChannelKey] = <<r.meta_data>>]
             /\ character_cache' = lc
             /\ UNCHANGED attempts

\* line 663: fetch_and_cache_character returns the cached entry, or awaits
\* the store
Proceed(p, l, cc, lc) ==
    IF lc = <<>>
    THEN /\ pc' = [pc EXCEPT ![p] = "character_get"]
         /\ loc' = [loc EXCEPT ![p] = l]
         /\ channel_cache' = [channel_cache EXCEPT ![ChannelKey] = cc]
         /\ character_cache' = lc
         /\ UNCHANGED attempts
    ELSE Compute(p, l, cc, lc)

\* lines 639-648: the execution starts; fetch_and_cache_channel_data returns
\* the cached entry or awaits get_document.  The executions are anonymous:
\* a new one takes the first free slot of Procs.
UpdateMetaBegin(p, intimacy) ==
    /\ pc[p] = "idle"
    /\ \A q \in Procs : q < p => pc[q] # "idle"
    /\ started < MaxTurns
    /\ started' = started + 1
    /\ LET l == [NoLocals EXCEPT !.intimacy = intimacy,
                                 !.seen = {k \in Tiers : committed[k] > 0}]
       IN  IF channel_cache[ChannelKey] # <<>>
           THEN Proceed(p, [l EXCEPT !.old_meta_data = channel_cache[ChannelKey]],
                        channel_cache[ChannelKey], character_cache)
           ELSE /\ pc' = [pc EXCEPT ![p] = "channel_get"]
                /\ loc' = [loc EXCEPT ![p] = l]
                /\ UNCHANGED <<channel_cache, character_cache, attempts>>
    /\ UNCHANGED <<channel_doc, card_doc, committed, rewrites>>

UpdateMetaStart(p, intimacy) ==
    /\ UpdateMetaBegin(p, intimacy)
    /\ UNCHANGED <<dedupVars, turnVars, extVars>>

\* FirebaseService.get_document in the worker thread: the document, or None
\* when the read fails
ChannelGet(p, ok) ==
    /\ pc[p] = "channel_get"
    /\ pc' = [pc EXCEPT ![p] = "channel_got"]
    /\ loc' = [loc EXCEPT ![p].raw = IF ok THEN <<channel_doc>> ELSE <<>>]
    /\ UNCHANGED <<channel_doc, channel_cache, character_cache, card_doc,
                   started, attempts, committed, rewrites>>
    /\ UNCHANGED <<dedupVars, turnVars, extVars>>

\* fetch_and_cache_channel_data lines 213-231 and on: None makes line 649
\* raise, which ends the execution; else the converted document is cached
ChannelGot(p) ==
    /\ pc[p] = "channel_got"
    /\ IF loc[p].raw = <<>>
       THEN Finish(p, channel_cache[ChannelKey], character_cache)
       ELSE Proceed(p, [loc[p] EXCEPT !.old_meta_data = loc[p].raw, !.raw = <<>>],
                    loc[p].raw, character_cache)
    /\ UNCHANGED <<channel_doc, card_doc, started, committed, rewrites>>
    /\ UNCHANGED <<dedupVars, turnVars, extVars>>

\* fetch_and_cache_character lines 44-94: the stored ladder is sorted by
\* threshold, keyed "1".."n" and cached
CharacterGot(p) ==
    /\ pc[p] = "character_get"
    /\ Compute(p, loc[p], channel_cache[ChannelKey],
               <<SortedByIntimacy(query_document(CharacterId).levels)>>)
    /\ UNCHANGED <<channel_doc, card_doc, started, committed, rewrites>>
    /\ UNCHANGED <<dedupVars, turnVars, extVars>>

(***************************************************************************)
(* FirebaseService.update_dict_field_with_log in the worker thread.  The   *)
(* snapshot is read with doc_ref.get(), outside the transaction, so the    *)
(* commit is not retried when the document changes in between.             *)
(***************************************************************************)
\* lines 191-193: snapshot = doc_ref.get()
CardSnapshot(p) ==
    /\ pc[p] = "card_snapshot"
    /\ pc' = [pc EXCEPT ![p] = "card_commit"]
    /\ loc' = [loc EXCEPT ![p].snapshot_exists = card_doc.exists]
    /\ UNCHANGED <<channel_doc, channel_cache, character_cache, card_doc,
                   started, attempts, committed, rewrites>>
    /\ UNCHANGED <<dedupVars, turnVars, extVars>>

\* lines 203-215, 251-252: transaction.set of a whole new document when the
\* snapshot did not exist, else transaction.update of the field path
\* collectedCardIdsDict.<card_id>; a failure is caught and returns False
CardCommit(p, ok) ==
    /\ pc[p] = "card_commit"
    /\ pc' = [pc EXCEPT ![p] = "card_done"]
    /\ IF ok
       THEN /\ card_doc' = [exists |-> TRUE,
                            cards |-> IF loc[p].snapshot_exists
                                      THEN card_doc.cards \cup {loc[p].new_card}
                                      ELSE {loc[p].new_card}]
            /\ committed' = [committed EXCEPT ![loc[p].tier] = @ + 1]
            /\ rewrites' = IF loc[p].tier \in loc[p].seen THEN rewrites + 1 ELSE rewrites
       ELSE UNCHANGED <<card_doc, committed, rewrites>>
    /\ loc' = [loc EXCEPT ![p].card_failed = ~ok]
    /\ UNCHANGED <<channel_doc, channel_cache, character_cache, started, attempts>>
    /\ UNCHANGED <<dedupVars, turnVars, extVars>>

\* the except clause of line 731 raising again: a failed card write ends
\* the execution in the except clause of line 756
CardDone_raise_on_failure(p) ==
    /\ pc[p] = "card_done"
    /\ IF loc[p].card_failed
       THEN Finish(p, channel_cache[ChannelKey], character_cache)
       ELSE /\ pc' = [pc EXCEPT ![p] = "doc_get"]
            /\ channel_cache' = [channel_cache EXCEPT ![ChannelKey] = loc[p].new_meta]
            /\ UNCHANGED <<character_cache, loc, attempts>>
    /\ UNCHANGED <<channel_doc, card_doc, started, committed, rewrites>>
    /\ UNCHANGED <<dedupVars, turnVars, extVars>>

\* lines 723-754 and update_and_cache_channel_data lines 244-255: the
\* coroutine resumes after the card write, whatever its result, stores the
\* new meta_data in the cache and awaits get_document
CardDone(p) ==
    /\ pc[p] = "card_done"
    /\ pc' = [pc EXCEPT ![p] = "doc_get"]
    /\ channel_cache' = [channel_cache EXCEPT ![ChannelKey] = loc[p].new_meta]
    /\ UNCHANGED <<channel_doc, character_cache, card_doc, loc,
                   started, attempts, committed, rewrites>>
    /\ UNCHANGED <<dedupVars, turnVars, extVars>>

\* update_and_cache_channel_data lines 255-265: the raw document has been
\* read, new_data is merged into it and set_document is awaited
DocGet(p) ==
    /\ pc[p] = "doc_get"
    /\ pc' = [pc EXCEPT ![p] = "doc_set"]
    /\ UNCHANGED <<channel_doc, channel_cache, character_cache, card_doc, loc,
                   started, attempts, committed, rewrites>>
    /\ UNCHANGED <<dedupVars, turnVars, extVars>>

\* FirebaseService.set_document(merge=True) in the worker thread: every field
\* of meta_data is replaced; a failure is caught and returns False, which
\* the caller ignores
DocSet(p, ok) ==
    /\ pc[p] = "doc_set"
    /\ channel_doc' = IF ok THEN loc[p].new_meta[1] ELSE channel_doc
    /\ Finish(p, channel_cache[ChannelKey], character_cache)
    /\ UNCHANGED <<card_doc, started, committed, rewrites>>
    /\ UNCHANGED <<dedupVars, turnVars, extVars>>

\* the TTLCache drops the channel-state entry (expiry or capacity eviction)
ChannelCacheEvict ==
    /\ channel_cache[ChannelKey] # <<>>
    /\ channel_cache' = [channel_cache EXCEPT ![ChannelKey] = <<>>]
    /\ UNCHANGED <<channel_doc, character_cache, card_doc, pc, loc,
                   started, attempts, committed, rewrites>>
    /\ UNCHANGED <<dedupVars, turnVars, extVars>>

\* the TTLCache drops the character entry (expiry or capacity eviction)
CharacterCacheEvict ==
    /\ character_cache # <<>>
    /\ character_cache' = <<>>
    /\ UNCHANGED <<channel_doc, channel_cache, card_doc, pc, loc,
                   started, attempts, committed, rewrites>>
    /\ UNCHANGED <<dedupVars, turnVars, extVars>>

(***************************************************************************)
(* One turn: AsyncStreamChatPlugin._handle_new_message, handle_message and *)
(* ChatOrchestrator.generate_response for a message.new event of a human   *)
(* sender that passed the duplicate check, with the typing task and the    *)
(* poll loops generate_response starts.  The answers of the collaborators  *)
(* (store, inference service) are choices of the environment.              *)
(***************************************************************************)
NoPoll == [pc |-> "off", elapsed |-> 0, remaining |-> 0, result |-> "",
           only_pending |-> TRUE]
NoResponse == [state |-> "none", text |-> "", response_type |-> "", usage |-> FALSE]
NoInput == [chat_mode |-> "", channel_ok |-> FALSE, character_ok |-> FALSE,
            locked_level_ok |-> FALSE]

\* the companion branch taken for every mode: the chat request only
RequestsOf_companion_only(chat_mode) == {"chat"}

\* lines 74 and 93-96: the companion mode sends the chat request only
RequestsOf(chat_mode) == IF chat_mode = "peiban" THEN {"chat"} ELSE Requests

\* _format_prompt_for_llm returns (it re-raises what it catches): meta_data
\* has "intimacy", the ladder is not empty and lockedLevel is one of its keys
prompt_ok(in) == in.channel_ok /\ in.character_ok /\ in.locked_level_ok

\* _get_response_model_for_mode: self.RESPONSE_MODEL[chat_mode] has the key
mode_ok(chat_mode) == chat_mode \in RESPONSE_MODEL_KEYS

\* the loop condition without its deadline: while True
within_wait_no_deadline(elapsed, max_wait) == elapsed >= 0

\* wait_for_completion line 181: the condition of the while loop
within_wait(elapsed, max_wait) == elapsed < max_wait

\* lines 121-145 and 153: the text and response type made of llm_result
response_of(llm_result) ==
    IF llm_result = "completed"
    THEN [state |-> "returned", text |-> GENERATED, response_type |-> "story",
          usage |-> TRUE]
    ELSE IF llm_result = "completed_empty"
    THEN [state |-> "returned", text |-> "", response_type |-> "story", usage |-> TRUE]
    ELSE IF llm_result = "completed_unknown"
    THEN [state |-> "returned", text |-> UNRECOGNISED, response_type |-> "unknown",
          usage |-> TRUE]
    ELSE [state |-> "returned", text |-> UNRECOGNISED, response_type |-> "",
          usage |-> TRUE]

\* lines 155-157: the except clause; the dict it returns has no "usage"
apology_response ==
    [state |-> "returned", text |-> APOLOGY, response_type |-> "error", usage |-> FALSE]

\* the gather replaced by a wait for the first poll loop to resolve
polls_first_resolved(chat_mode) == \E r \in RequestsOf(chat_mode) : poll[r].pc = "done"

\* lines 105-108: the awaited gather of the poll loops has resolved
polls_resolved(chat_mode) == \A r \in RequestsOf(chat_mode) : poll[r].pc = "done"

\* handle_message lines 38-82 and generate_response line 49: the event is
\* taken, typing.start is sent, the context is loaded; a part of the context
\* that cannot be loaded becomes an empty default
TurnStart(chat_mode, channel_ok, character_ok, locked_level_ok) ==
    /\ turn_pc = "idle"
    /\ character_ok \/ ~locked_level_ok
    /\ turn_pc' = "prepare"
    /\ turn_in' = [chat_mode |-> chat_mode, channel_ok |-> channel_ok,
                   character_ok |-> character_ok, locked_level_ok |-> locked_level_ok]
    /\ failures' = IF channel_ok /\ character_ok THEN failures
                   ELSE failures \cup {"context"}
    /\ UNCHANGED <<stop_typing_event, typing_task, submitted, poll, response,
                   sent_messages>>
    /\ UNCHANGED <<dedupVars, metaVars, extVars>>

\* generate_response lines 50-69 up to the await of the submissions.  What
\* lines 50-60 raise is outside the try: it leaves generate_response and
\* handle_message and is caught by _handle_new_message, which sends nothing.
Prepare ==
    /\ turn_pc = "prepare"
    /\ IF ~prompt_ok(turn_in) \/ ~mode_ok(turn_in.chat_mode)
       THEN /\ response' = [NoResponse EXCEPT !.state = "raised"]
            /\ failures' = failures \cup
                  {IF ~prompt_ok(turn_in) THEN "prompt" ELSE "mode"}
            /\ turn_pc' = "done"
            /\ UNCHANGED <<typing_task, submitted>>
       ELSE /\ submitted' = [r \in Requests |->
                               IF r \in RequestsOf(turn_in.chat_mode)
                               THEN "pending" ELSE "off"]
            /\ typing_task' = [pc |-> "check", remaining |-> 0]
            /\ turn_pc' = "submitting"
            /\ UNCHANGED <<response, failures>>
    /\ UNCHANGED <<turn_in, stop_typing_event, poll, sent_messages>>
    /\ UNCHANGED <<dedupVars, metaVars, extVars>>

\* AsyncLLMService.send_chat_request answers
SubmitAnswer(r, a) ==
    /\ turn_pc = "submitting"
    /\ submitted[r] = "pending"
    /\ submitted' = [submitted EXCEPT ![r] = a]
    /\ UNCHANGED <<turn_pc, turn_in, stop_typing_event, typing_task, poll, response,
                   sent_messages, failures>>
    /\ UNCHANGED <<dedupVars, metaVars, extVars>>

\* lines 75-81 and 98-108: a missing answer or request id raises into the
\* except clause; else the poll loops start
AfterSubmit ==
    /\ turn_pc = "submitting"
    /\ \A r \in RequestsOf(turn_in.chat_mode) : submitted[r] # "pending"
    /\ IF \E r \in RequestsOf(turn_in.chat_mode) : submitted[r] # "ok"
       THEN /\ response' = apology_response
            /\ failures' = failures \cup {"submission"}
            /\ turn_pc' = "handler"
            /\ UNCHANGED poll
       ELSE /\ poll' = [r \in Requests |->
                          IF r \in RequestsOf(turn_in.chat_mode)
                          THEN [NoPoll EXCEPT !.pc = "check"] ELSE NoPoll]
            /\ turn_pc' = "polling"
            /\ UNCHANGED <<response, failures>>
    /\ UNCHANGED <<turn_in, stop_typing_event, typing_task, submitted, sent_messages>>
    /\ UNCHANGED <<dedupVars, metaVars, extVars>>

(***************************************************************************)
(* AsyncLLMService.wait_for_completion, one action per stretch of the      *)
(* loop.  elapsed is loop.time() - start_time, counted up to max_wait_time.*)
(***************************************************************************)
\* line 181: the loop condition; line 197 when it fails
PollCheck(r) ==
    /\ poll[r].pc = "check"
    /\ poll' = [poll EXCEPT ![r] =
                  IF within_wait(poll[r].elapsed, max_wait_time)
                  THEN [@ EXCEPT !.pc = "http"]
                  ELSE [@ EXCEPT !.pc = "done", !.result = "timeout"]]
    /\ UNCHANGED <<turn_pc, turn_in, stop_typing_event, typing_task, submitted,
                   response, sent_messages, failures>>
    /\ UNCHANGED <<dedupVars, metaVars, extVars>>

\* lines 182-194: get_chat_result answers; pending sleeps check_interval,
\* anything else ends the loop
PollAnswer(r, a) ==
    /\ poll[r].pc = "http"
    /\ poll' = [poll EXCEPT ![r] =
                  IF a = "pending"
                  THEN [@ EXCEPT !.pc = "sleep", !.remaining = check_interval]
                  ELSE [@ EXCEPT !.pc = "done", !.result = a, !.only_pending = FALSE]]
    /\ UNCHANGED <<turn_pc, turn_in, stop_typing_event, typing_task, submitted,
                   response, sent_messages, failures>>
    /\ UNCHANGED <<dedupVars, metaVars, extVars>>

\* line 194: asyncio.sleep(check_interval) returns
PollWake(r) ==
    /\ poll[r].pc = "sleep"
    /\ poll[r].remaining = 0
    /\ poll' = [poll EXCEPT ![r].pc = "check"]
    /\ UNCHANGED <<turn_pc, turn_in, stop_typing_event, typing_task, submitted,
                   response, sent_messages, failures>>
    /\ UNCHANGED <<dedupVars, metaVars, extVars>>

\* generate_response lines 81-114: the polls have resolved.  In the companion
\* mode an exception of the poll goes to the except clause; the gather of the
\* other modes returns it as a result.  Then the stop flag is set and the
\* typing task awaited.
PollsDone ==
    /\ turn_pc = "polling"
    /\ polls_resolved(turn_in.chat_mode)
    /\ failures' = IF \E r \in RequestsOf(turn_in.chat_mode) :
                         poll[r].result \in {"error", "none", "raised"}
                   THEN failures \cup {"polling"} ELSE failures
    /\ IF turn_in.chat_mode = "peiban" /\ poll["chat"].result = "raised"
       THEN /\ response' = apology_response
            /\ turn_pc' = "handler"
            /\ UNCHANGED stop_typing_event
       ELSE /\ stop_typing_event' = TRUE
            /\ turn_pc' = "await_typing"
            /\ UNCHANGED response
    /\ UNCHANGED <<turn_in, typing_task, submitted, poll, sent_messages>>
    /\ UNCHANGED <<dedupVars, metaVars, extVars>>

\* lines 114-149: the typing task has returned; llm_result.get raises on
\* None and on an exception object; else the text is built and, except in the
\* level mode, _update_meta_data is awaited
TypingJoined ==
    /\ turn_pc = "await_typing"
    /\ typing_task.pc = "ended"
    /\ IF poll["chat"].result \in {"none", "raised"}
       THEN /\ response' = apology_response
            /\ turn_pc' = "handler"
       ELSE IF turn_in.chat_mode # "guanka"
       THEN /\ turn_pc' = "scoring"
            /\ UNCHANGED response
       ELSE /\ response' = response_of(poll["chat"].result)
            /\ turn_pc' = "handler"
    /\ UNCHANGED <<turn_in, stop_typing_event, typing_task, submitted, poll,
                   sent_messages, failures>>
    /\ UNCHANGED <<dedupVars, metaVars, extVars>>

\* lines 149-153: _update_meta_data has returned (it catches what it
\* raises) and the response is returned
Scored(ok) ==
    /\ turn_pc = "scoring"
    /\ response' = response_of(poll["chat"].result)
    /\ failures' = IF ok THEN failures ELSE failures \cup {"scoring"}
    /\ turn_pc' = "handler"
    /\ UNCHANGED <<turn_in, stop_typing_event, typing_task, submitted, poll,
                   sent_messages>>
    /\ UNCHANGED <<dedupVars, metaVars, extVars>>

\* handle_message lines 92-114: usage["ticket_cost"] = ... raises TypeError
\* when the response has no "usage"; _handle_new_message catches it and
\* sends nothing.  Else the usage is stored and "success" returned.
HandlerAfter ==
    /\ turn_pc = "handler"
    /\ turn_pc' = IF response.usage THEN "sending" ELSE "done"
    /\ UNCHANGED <<turn_in, stop_typing_event, typing_task, submitted, poll,
                   response, sent_messages, failures>>
    /\ UNCHANGED <<dedupVars, metaVars, extVars>>

\* _handle_new_message lines 108-112: send_message with the response text
PluginSend ==
    /\ turn_pc = "sending"
    /\ sent_messages' = Append(sent_messages, response.text)
    /\ turn_pc' = "done"
    /\ UNCHANGED <<turn_in, stop_typing_event, typing_task, submitted, poll,
                   response, failures>>
    /\ UNCHANGED <<dedupVars, metaVars, extVars>>

(***************************************************************************)
(* ChatOrchestrator.maintain_typing.  send_event catches what it raises,   *)
(* and nothing cancels the task.                                           *)
(***************************************************************************)
\* line 184: the loop condition
TypingCheck ==
    /\ typing_task.pc = "check"
    /\ typing_task' = [typing_task EXCEPT !.pc =
                          IF stop_typing_event THEN "ended" ELSE "send"]
    /\ UNCHANGED <<turn_pc, turn_in, stop_typing_event, submitted, poll, response,
                   sent_messages, failures>>
    /\ UNCHANGED <<dedupVars, metaVars, extVars>>

\* lines 185-188: typing.start is sent, then the task sleeps for interval
TypingSend ==
    /\ typing_task.pc = "send"
    /\ typing_task' = [pc |-> "sleep", remaining |-> interval]
    /\ UNCHANGED <<turn_pc, turn_in, stop_typing_event, submitted, poll, response,
                   sent_messages, failures>>
    /\ UNCHANGED <<dedupVars, metaVars, extVars>>

\* line 188: asyncio.sleep(interval) returns
TypingWake ==
    /\ typing_task.pc = "sleep"
    /\ typing_task.remaining = 0
    /\ typing_task' = [typing_task EXCEPT !.pc = "check"]
    /\ UNCHANGED <<turn_pc, turn_in, stop_typing_event, submitted, poll, response,
                   sent_messages, failures>>
    /\ UNCHANGED <<dedupVars, metaVars, extVars>>

\* the clock of the event loop advances while something sleeps
TurnClock ==
    /\ \/ typing_task.pc = "sleep" /\ typing_task.remaining > 0
       \/ \E r \in Requests : poll[r].pc = "sleep" /\ poll[r].remaining > 0
    /\ typing_task' = [typing_task EXCEPT !.remaining = Max(0, @ - TurnTick)]
    /\ poll' = [r \in Requests |->
                  IF poll[r].pc \in {"off", "done"} THEN poll[r]
                  ELSE [poll[r] EXCEPT !.remaining = Max(0, @ - TurnTick),
                                       !.elapsed = Min(max_wait_time, @ + TurnTick)]]
    /\ UNCHANGED <<turn_pc, turn_in, stop_typing_event, submitted, response,
                   sent_messages, failures>>
    /\ UNCHANGED <<dedupVars, metaVars, extVars>>

(***************************************************************************)
(* FetchCacheService.update_and_cache_channel_data on one channel          *)
(* document, called concurrently with partials of one top-level field      *)
(* each.  A field holds a number: the n-th call writes n.  "extra" is a    *)
(* field of the document this program does not read.                       *)
(***************************************************************************)
Fields == {"meta_data", "user_persona", "extra"}
Writers == 1..NWriters
\* a dict with no key
NoFields == [f \in {} |-> 0]
NoUpdate == [pc |-> "idle", field |-> "", value |-> 0, raw |-> NoFields]

\* {**a, **b} and a.update(b): the keys of both, b's value where both have one
DictUpdate(a, b) ==
    [f \in (DOMAIN a) \cup (DOMAIN b) |-> IF f \in DOMAIN b THEN b[f] ELSE a[f]]

\* ChatCacheService defaults: get_channel_data creates the entry when it is
\* missing, with an empty user_persona and the default meta_data
DefaultChannelData == [f \in {"user_persona", "meta_data"} |-> 0]

\* lines 255-262: raw, as get_document returned it, updated with new_data
set_data(raw, new_data) == DictUpdate(raw, new_data)

\* lines 244-255: the cache entry (created with the defaults when missing) is
\* merged with new_data and stored; get_document is awaited
UpdateStart(w, f) ==
    /\ upd[w].pc = "idle"
    /\ updates < MaxUpdates
    /\ updates' = updates + 1
    /\ LET new_data == [g \in {f} |-> updates + 1]
           existing == IF doc_cached = NoFields THEN DefaultChannelData ELSE doc_cached
       IN  /\ doc_cached' = DictUpdate(existing, new_data)
           /\ upd' = [upd EXCEPT ![w] = [pc |-> "get", field |-> f,
                                         value |-> updates + 1, raw |-> NoFields]]
    /\ UNCHANGED doc_fields
    /\ UNCHANGED docRest

\* FirebaseService.get_document in the worker thread: the document, or None
\* when the read fails, which line 255 turns into {}
UpdateGet(w, ok) ==
    /\ upd[w].pc = "get"
    /\ upd' = [upd EXCEPT ![w].pc = "set",
                          ![w].raw = IF ok THEN doc_fields ELSE NoFields]
    /\ UNCHANGED <<doc_fields, doc_cached, updates>>
    /\ UNCHANGED docRest

\* FirebaseService.set_document(merge=True) in the worker thread: every field
\* of the data is written, the others keep their value; a failure is caught
UpdateSet(w, ok) ==
    /\ upd[w].pc = "set"
    /\ LET new_data == [g \in {upd[w].field} |-> upd[w].value]
           data == set_data(upd[w].raw, new_data)
       IN  doc_fields' = IF ok THEN DictUpdate(doc_fields, data) ELSE doc_fields
    /\ upd' = [upd EXCEPT ![w] = NoUpdate]
    /\ UNCHANGED <<doc_cached, updates>>
    /\ UNCHANGED docRest

(***************************************************************************)
(* The message cache of one (user, channel) and                            *)
(* FetchCacheService.fetch_and_cache_messages.  A text is a number: texts  *)
(* are numbered in the order of their creation, 0 is the empty text.  A    *)
(* sender id is a sequence of characters.                                  *)
(***************************************************************************)
Fetchers == 1..NFetchers
Roles == {"assistant", "user"}
\* _get_cache_key
MessageKey == <<UserId, ChannelId>>
NoEntries == [k \in {} |-> 0]
EmptyEntry == [chat_history |-> <<>>, current_message |-> 0]
NoFetch == [pc |-> "idle", role |-> "", text |-> 0, hit |-> FALSE, messages |-> <<>>]

\* sender ids of transport messages; <<>> is a message without a user id
StreamSenders ==
    << <<"a", "i", "-", "k">>, <<"u", "1">>, <<"a", "i">>, <<>> >>
\* the responses of get_channel_messages: how many messages (at most limit),
\* which sender the first has, which texts are empty (none, every second)
ResponseShapes ==
    { <<0, 0, "none">>, <<3, 0, "even">>, <<3, 1, "none">>,
      <<FetchCacheService_MAX_MESSAGES, 1, "even">> }
\* lengths of the list a direct caller hands to store_chat_history
StoreLengths == {2, MAX_MESSAGES, MAX_MESSAGES + 1}

\* str.startswith
startswith(s, prefix) ==
    /\ Len(s) >= Len(prefix)
    /\ SubSeq(s, 1, Len(prefix)) = prefix

\* messages[-n:] of a list longer than n
Latest(messages, n) == SubSeq(messages, Len(messages) - n + 1, Len(messages))

\* the list get_channel_messages returns: n messages created after `first`
Response(n, shift, empties, first) ==
    [i \in 1..n |->
        [user_id |-> StreamSenders[((i + shift) % Len(StreamSenders)) + 1],
         text |-> IF empties = "even" /\ i % 2 = 0 THEN 0 ELSE first + i]]

\* the list a direct caller of store_chat_history holds
Turns(n, first) ==
    [i \in 1..n |-> [role |-> IF i % 2 = 1 THEN "user" ELSE "assistant",
                     content |-> first + i]]

\* _ensure_cache_exists: the entry is created empty when the key is missing
ensure_cache_exists(cache) ==
    IF MessageKey \in DOMAIN cache THEN cache
    ELSE [k \in {MessageKey} |-> EmptyEntry]

\* has_messages_history_cache
has_messages_history_cache(cache) == MessageKey \in DOMAIN cache

\* add_message without lines 130-131: the history is never cut
add_message_unbounded(cache, role, content) ==
    LET c == ensure_cache_exists(cache)
    IN  [c EXCEPT ![MessageKey].chat_history =
                      Append(@, [role |-> role, content |-> content])]

\* add_message: the turn is appended, then the latest MAX_MESSAGES are kept
add_message(cache, role, content) ==
    LET c == ensure_cache_exists(cache)
        h == Append(c[MessageKey].chat_history, [role |-> role, content |-> content])
    IN  [c EXCEPT ![MessageKey].chat_history =
                      IF Len(h) > MAX_MESSAGES THEN Latest(h, MAX_MESSAGES) ELSE h]

\* store_chat_history: the history is replaced by the latest MAX_MESSAGES
store_chat_history(cache, messages) ==
    LET c == ensure_cache_exists(cache)
    IN  [c EXCEPT ![MessageKey].chat_history =
                      IF Len(messages) > MAX_MESSAGES
                      THEN Latest(messages, MAX_MESSAGES) ELSE messages]

\* set_current_message
set_current_message(cache, current_message) ==
    LET c == ensure_cache_exists(cache)
    IN  [c EXCEPT ![MessageKey].current_message = current_message]

\* convert_stream_messages_to_cache_format: messages without text are
\* skipped, the role comes from the prefix of the sender id, the order is kept
RECURSIVE convert_stream_messages_to_cache_format(_)
convert_stream_messages_to_cache_format(messages) ==
    IF messages = <<>> THEN <<>>
    ELSE LET msg == Head(messages)
             is_ai == startswith(msg.user_id, AI_PREFIX)
             rest == convert_stream_messages_to_cache_format(Tail(messages))
         IN  IF msg.text = 0 THEN rest
             ELSE <<[role |-> IF is_ai THEN "assistant" ELSE "user",
                     content |-> msg.text]>> \o rest

\* lines 105-109 with line 108 in force: a user text is appended as well
on_cache_hit_add_user(cache, role, current_message) ==
    IF role = "assistant" THEN add_message(cache, role, current_message)
    ELSE IF role = "user"
         THEN set_current_message(add_message(cache, role, current_message),
                                  current_message)
         ELSE cache

\* lines 105-109: what fetch_and_cache_messages does on a cache hit
on_cache_hit(cache, role, current_message) ==
    IF role = "assistant" THEN add_message(cache, role, current_message)
    ELSE IF role = "user" THEN set_current_message(cache, current_message)
         ELSE cache

\* lines 114-123: what fetch_and_cache_messages does with the response
on_cache_miss(cache, role, current_message, messages_history) ==
    LET converted_messages == convert_stream_messages_to_cache_format(messages_history)
        stored == store_chat_history(cache, converted_messages)
    IN  IF role = "user" THEN set_current_message(stored, current_message)
        ELSE stored

\* the turns a call drops from a history that grew to `before`
Dropped(before, cache) ==
    IF Len(cache[MessageKey].chat_history) < before THEN 1 ELSE 0

\* lines 103-110: the key is cached
FetchHit(w, role) ==
    /\ fetch[w].pc = "idle"
    /\ calls < MaxCalls
    /\ calls' = calls + 1
    /\ has_messages_history_cache(message_cache)
    /\ next_text' = next_text + 1
    /\ message_cache' = on_cache_hit(message_cache, role, next_text + 1)
    /\ fetch' = [fetch EXCEPT ![w] = [pc |-> "idle", role |-> role,
                                      text |-> next_text + 1, hit |-> TRUE,
                                      messages |-> <<>>]]
    /\ truncations' = truncations +
          (IF role = "assistant"
           THEN Dropped(Len(message_cache[MessageKey].chat_history) + 1, message_cache')
           ELSE 0)
    /\ UNCHANGED msgRest

\* lines 111-113: the key is not cached, get_channel_messages is awaited
FetchMissStart(w, role) ==
    /\ fetch[w].pc = "idle"
    /\ calls < MaxCalls
    /\ calls' = calls + 1
    /\ ~has_messages_history_cache(message_cache)
    /\ next_text' = next_text + 1
    /\ fetch' = [fetch EXCEPT ![w] = [pc |-> "wait", role |-> role,
                                      text |-> next_text + 1, hit |-> FALSE,
                                      messages |-> <<>>]]
    /\ UNCHANGED <<message_cache, truncations>>
    /\ UNCHANGED msgRest

\* lines 112-151: get_channel_messages returns (an empty list when the query
\* failed); the converted list is stored and a user text is staged
FetchMissDone(w, n, shift, empties) ==
    /\ fetch[w].pc = "wait"
    /\ next_text' = next_text + n
    /\ LET messages_history == Response(n, shift, empties, next_text)
       IN  /\ message_cache' = on_cache_miss(message_cache, fetch[w].role,
                                             fetch[w].text, messages_history)
           /\ fetch' = [fetch EXCEPT ![w].pc = "idle",
                                     ![w].messages = messages_history]
    /\ UNCHANGED <<truncations, calls>>
    /\ UNCHANGED msgRest

\* ChatCacheService.add_message called directly (chat_orchestrator.py:243)
AddMessage(role) ==
    /\ calls < MaxCalls
    /\ calls' = calls + 1
    /\ next_text' = next_text + 1
    /\ message_cache' = add_message(message_cache, role, next_text + 1)
    /\ truncations' = truncations +
          Dropped(Len(ensure_cache_exists(message_cache)[MessageKey].chat_history) + 1,
                  message_cache')
    /\ UNCHANGED fetch
    /\ UNCHANGED msgRest

\* ChatCacheService.store_chat_history called directly
StoreChatHistory(n) ==
    /\ calls < MaxCalls
    /\ calls' = calls + 1
    /\ next_text' = next_text + n
    /\ message_cache' = store_chat_history(message_cache, Turns(n, next_text))
    /\ truncations' = truncations + Dropped(n, message_cache')
    /\ UNCHANGED fetch
    /\ UNCHANGED msgRest

\* clear_cache, or the entry's TTL runs out
ClearCache ==
    /\ has_messages_history_cache(message_cache)
    /\ message_cache' = NoEntries
    /\ UNCHANGED <<fetch, next_text, truncations, calls>>
    /\ UNCHANGED msgRest

(***************************************************************************)
(* FetchCacheService.fetch_and_cache_character on one character.  The      *)
(* record holds i18n, a dict from locale to the prompt and the ladder of   *)
(* that locale, and may declare default_locale.  A Python value that may   *)
(* be None is a record [is_none, value].                                   *)
(***************************************************************************)
None == [is_none |-> TRUE, value |-> NoFields]
Some(v) == [is_none |-> FALSE, value |-> v]
\* request_locale=None, and a record without default_locale
NoLocale == ""
RequestLocales == {NoLocale, "fr", "jp"}
\* the locale sets and the declared defaults of the stored records
LocaleSets == {{}, {"en"}, {"en", "jp"}}
DefaultLocales == {NoLocale, "en", "de"}
\* i18n of a record with the locales S: the prompt is named after its locale
I18n(S) == [l \in S |-> [system_prompt |-> l, levels |-> RawLevels]]
\* the result {} of fetch_and_cache_character
EmptyResult == NoFields
NoCharacterDocument ==
    [exists |-> FALSE, data |-> [i18n |-> I18n({}), default_locale |-> NoLocale]]
\* the records Characters/{character_id} may hold
CharacterDocuments ==
    {NoCharacterDocument}
    \cup {[exists |-> TRUE, data |-> [i18n |-> I18n(S), default_locale |-> d]] :
             S \in LocaleSets, d \in DefaultLocales}
NoCharacterCall == [pc |-> "idle", request_locale |-> NoLocale, hit |-> FALSE,
                    result |-> EmptyResult]

\* firebase_service.query_document("Characters", character_id): the stored
\* record, None when there is none
query_character(doc) == IF doc.exists THEN Some(doc.data) ELSE None

\* lines 53-56: the declared default, the requested locale when i18n has it
select_locale(raw_data, request_locale) ==
    IF request_locale # NoLocale /\ request_locale \in DOMAIN raw_data.i18n
    THEN request_locale
    ELSE raw_data.default_locale

\* lines 63-77: system_prompt and the sorted levels of the locale, {} and no
\* level when i18n has no such locale
parse_character(i18n, locale) ==
    IF locale \in DOMAIN i18n
    THEN [system_prompt |-> i18n[locale].system_prompt,
          levels |-> SortedByIntimacy(i18n[locale].levels)]
    ELSE [system_prompt |-> "", levels |-> <<>>]

\* has_character_cache
has_character_cache(entries) == CharacterId \in DOMAIN entries

\* lines 40-41: the character is cached; otherwise query_document is awaited
CharacterStart(request_locale) ==
    /\ character_call.pc = "idle"
    /\ character_calls < MaxFetches
    /\ character_calls' = character_calls + 1
    /\ character_call' =
          IF has_character_cache(character_entries)
          THEN [pc |-> "idle", request_locale |-> request_locale, hit |-> TRUE,
                result |-> character_entries[CharacterId]]
          ELSE [pc |-> "query", request_locale |-> request_locale, hit |-> FALSE,
                result |-> EmptyResult]
    /\ UNCHANGED <<characters_doc, character_entries>>
    /\ UNCHANGED charRest

\* lines 44-94: the record arrives; without a record, without i18n or without
\* a locale the result is {}, otherwise the character is stored and returned
CharacterDone ==
    /\ character_call.pc = "query"
    /\ LET raw_data == query_character(characters_doc)
           no_data == raw_data.is_none \/ DOMAIN raw_data.value.i18n = {}
           locale == IF no_data THEN NoLocale
                     ELSE select_locale(raw_data.value, character_call.request_locale)
       IN  IF no_data \/ locale = NoLocale
           THEN /\ character_call' = [character_call EXCEPT !.pc = "idle",
                                                            !.result = EmptyResult]
                /\ UNCHANGED character_entries
           ELSE LET cached_data == parse_character(raw_data.value.i18n, locale)
                IN  /\ character_entries' = [c \in {CharacterId} |-> cached_data]
                    /\ character_call' = [character_call EXCEPT !.pc = "idle",
                                                                !.result = cached_data]
    /\ UNCHANGED <<characters_doc, character_calls>>
    /\ UNCHANGED charRest

\* the record of the character is written or deleted in the store
CharacterDocumentChanges(doc) ==
    /\ characters_doc # doc
    /\ characters_doc' = doc
    /\ UNCHANGED <<character_entries, character_call, character_calls>>
    /\ UNCHANGED charRest

\* the entry's TTL runs out
CharacterExpires ==
    /\ has_character_cache(character_entries)
    /\ character_entries' = NoFields
    /\ UNCHANGED <<characters_doc, character_call, character_calls>>
    /\ UNCHANGED charRest

(***************************************************************************)
(* FetchCacheService.fetch_and_cache_channel_data on one channel.  A field *)
(* of the document is "{}" (an empty dict) or holds data.                  *)
(***************************************************************************)
\* the documents channels/{channel_id} may hold
NoChannelDocument == [exists |-> FALSE, data |-> NoFields]
ChannelDocuments ==
    { NoFields,
      [f \in {"user_persona", "meta_data"} |-> "{}"],
      [f \in {"meta_data"} |-> "m1"],
      [f \in {"user_persona", "meta_data"} |-> IF f = "meta_data" THEN "m1" ELSE "p1"],
      [f \in {"extra"} |-> "x"] }
NoChannelCall == [pc |-> "idle", hit |-> FALSE, raw |-> None, result |-> None]

\* the truth value of a dict or None
truthy(v) == ~v.is_none /\ DOMAIN v.value # {}

\* FirebaseService.get_document: to_dict() of the document; None when there
\* is no document and when the read fails
get_document(doc, ok) == IF ok /\ doc.exists THEN Some(doc.data) ELSE None

\* convert_firebase_to_channel_data: the fields the document has, the
\* defaults for the others and for what an empty meta_data lacks
convert_firebase_to_channel_data(firebase_data) ==
    [user_persona |-> IF "user_persona" \in DOMAIN firebase_data
                      THEN firebase_data["user_persona"] ELSE "{}",
     meta_data |-> IF "meta_data" \in DOMAIN firebase_data /\ firebase_data["meta_data"] # "{}"
                   THEN firebase_data["meta_data"] ELSE "default"]

\* has_channel_data_cache
has_channel_data_cache(entries) == ChannelKey \in DOMAIN entries

\* lines 198-208: the channel is cached; otherwise get_document is awaited
ChannelDataStart ==
    /\ channel_call.pc = "idle"
    /\ channel_calls < MaxFetches
    /\ channel_calls' = channel_calls + 1
    /\ channel_call' =
          IF has_channel_data_cache(channel_entries)
          THEN [pc |-> "idle", hit |-> TRUE, raw |-> None,
                result |-> Some(channel_entries[ChannelKey])]
          ELSE [pc |-> "get", hit |-> FALSE, raw |-> None, result |-> None]
    /\ UNCHANGED <<channels_doc, channel_entries>>
    /\ UNCHANGED chanRest

\* lines 208-231: get_document returns; a falsy value gives None, anything
\* else is converted, cached and returned
ChannelDataGot(ok) ==
    /\ channel_call.pc = "get"
    /\ LET raw == get_document(channels_doc, ok)
       IN  IF ~truthy(raw)
           THEN /\ channel_call' = [channel_call EXCEPT !.pc = "idle", !.raw = raw,
                                                        !.result = None]
                /\ UNCHANGED channel_entries
           ELSE LET channel_data == convert_firebase_to_channel_data(raw.value)
                IN  /\ channel_entries' = [k \in {ChannelKey} |-> channel_data]
                    /\ channel_call' = [channel_call EXCEPT !.pc = "idle", !.raw = raw,
                                                            !.result = Some(channel_data)]
    /\ UNCHANGED <<channels_doc, channel_calls>>
    /\ UNCHANGED chanRest

\* the entry's TTL runs out
ChannelDataExpires ==
    /\ has_channel_data_cache(channel_entries)
    /\ channel_entries' = NoFields
    /\ UNCHANGED <<channels_doc, channel_call, channel_calls>>
    /\ UNCHANGED chanRest

\* the document of the channel is written or deleted in the store
ChannelDocumentChanges(doc) ==
    /\ channels_doc # doc
    /\ channels_doc' = doc
    /\ UNCHANGED <<channel_entries, channel_call, channel_calls>>
    /\ UNCHANGED chanRest

(***************************************************************************)
(* FetchCacheService.store_and_cache_user_channel_data, which              *)
(* create_channel calls with the document of the new channel.              *)
(***************************************************************************)
required_meta_keys ==
    {"intimacy", "total_intimacy", "intimacy_percentage", "current_level",
     "next_level", "lock_level"}
\* a dict with the keys S
DictOf(S) == [k \in S |-> 0]
\* user_persona of the argument: no such key, an empty persona, a persona
Personas == {"None", "{}", "p1"}
\* meta_data of the argument: none, complete, with one more key, one key short
MetaDatas ==
    {DictOf({}), DictOf(required_meta_keys), DictOf(required_meta_keys \cup {"note"})}
    \cup {DictOf(required_meta_keys \ {k}) : k \in required_meta_keys}
ChannelDatas == [user_persona : Personas, meta_data : MetaDatas]
NoCreateCall == [pc |-> "idle", channel_data |-> [user_persona |-> "None", meta_data |-> DictOf({})],
                 raised |-> FALSE]

\* lines 163-170 with `and` in place of `or`
fields_missing_both(channel_data) ==
    /\ channel_data.user_persona = "None"
    /\ \E k \in required_meta_keys : k \notin DOMAIN channel_data.meta_data

\* lines 163-170: persona is None or a required key is not in meta
fields_missing(channel_data) ==
    \/ channel_data.user_persona = "None"
    \/ \E k \in required_meta_keys : k \notin DOMAIN channel_data.meta_data

\* line 173: meta[k] of a key meta lacks raises KeyError
key_error(channel_data) ==
    \E k \in required_meta_keys : k \notin DOMAIN channel_data.meta_data

\* line 173: the payload to cache
channel_data_cache(channel_data) ==
    [user_persona |-> channel_data.user_persona,
     meta_data |-> [k \in required_meta_keys |-> channel_data.meta_data[k]]]

\* lines 162-184: the fields are checked; ValueError, or the payload is
\* cached and set_document is awaited
CreateStart(channel_data) ==
    /\ create_call.pc = "idle"
    /\ creates < MaxCreates
    /\ creates' = creates + 1
    /\ IF fields_missing(channel_data) \/ key_error(channel_data)
       THEN /\ create_call' = [pc |-> "idle", channel_data |-> channel_data, raised |-> TRUE]
            /\ UNCHANGED created_entries
       ELSE /\ create_call' = [pc |-> "set", channel_data |-> channel_data, raised |-> FALSE]
            /\ created_entries' = [k \in {MessageKey} |-> channel_data_cache(channel_data)]
    /\ UNCHANGED created_doc
    /\ UNCHANGED <<coreVars, fetchVars, createRest>>

\* lines 183-189: set_document returns (a failed write is caught inside it)
CreateSet(ok) ==
    /\ create_call.pc = "set"
    /\ created_doc' = IF ok THEN [exists |-> TRUE, data |-> create_call.channel_data]
                      ELSE created_doc
    /\ create_call' = [create_call EXCEPT !.pc = "idle"]
    /\ UNCHANGED <<created_entries, creates>>
    /\ UNCHANGED <<coreVars, fetchVars, createRest>>

(***************************************************************************)
(* The level functions on the ladders fetch_and_cache_character caches:    *)
(* the levels sorted by intimacy, keyed "1".."n".  Tier i carries the i-th *)
(* title.                                                                  *)
(***************************************************************************)
Thresholds == {0, 3, 8}
Scores == MinScore..MaxScore
\* the sorted lists of thresholds
SortedThresholds ==
    UNION {{t \in [1..n -> Thresholds] : \A i, j \in 1..n : i < j => t[i] <= t[j]} :
              n \in 0..MaxLadder}
LadderOf(t) ==
    [i \in 1..Len(t) |-> [intimacy |-> t[i], title |-> TitleOrder[i + 1], hasCard |-> FALSE]]
Ladders == {LadderOf(t) : t \in SortedThresholds}
NoEval == [levels |-> <<>>, evaluated |-> FALSE, total |-> 0, max_level |-> -1,
           current_level |-> "", next_level |-> "", intimacy_percentage |-> 0,
           before |-> FALSE, total_before |-> 0, max_level_before |-> -1]

\* get_current_level_title, line 9, with the comparison turned round
max_level_flipped(levels, total_intimacy) ==
    LET reached == {i \in 1..Len(levels) : total_intimacy <= levels[i].intimacy}
    IN  IF reached = {} THEN -1 ELSE CHOOSE i \in reached : \A j \in reached : j <= i

\* get_current_level_title, lines 6-10: max_level when the loop ends
max_level(levels, total_intimacy) ==
    LET reached == {i \in 1..Len(levels) : total_intimacy >= levels[i].intimacy}
    IN  IF reached = {} THEN -1 ELSE CHOOSE i \in reached : \A j \in reached : j <= i

\* fetch_and_cache_character caches the character with this ladder
LadderCached(levels) ==
    /\ level_eval.levels # levels
    /\ level_eval' = [NoEval EXCEPT !.levels = levels]
    /\ UNCHANGED <<coreVars, fetchVars, levelsRest>>

\* chat_orchestrator.py lines 651-696: the levels of the new total
Evaluate(total_intimacy) ==
    /\ LET levels == level_eval.levels
           new == compute_meta([total_intimacy |-> 0, lock_level |-> 1], levels,
                               total_intimacy).meta_data
       IN  level_eval' =
              [levels |-> levels, evaluated |-> TRUE, total |-> total_intimacy,
               max_level |-> max_level(levels, total_intimacy),
               current_level |-> new.current_level,
               next_level |-> new.next_level,
               intimacy_percentage |-> new.intimacy_percentage,
               before |-> level_eval.evaluated,
               total_before |-> level_eval.total,
               max_level_before |-> level_eval.max_level]
    /\ level_eval' # level_eval
    /\ UNCHANGED <<coreVars, fetchVars, levelsRest>>

(***************************************************************************)
(* Initial states and specifications.                                      *)
(***************************************************************************)
vars == <<dedupVars, metaVars, turnVars, extVars>>

\* the caches are empty after construction
InitDedupVars ==
    /\ now = 0
    /\ processed_messages = <<>>
    /\ runs = [t \in Triples |-> <<>>]
    /\ lastMark = [t \in Triples |-> -1]
    /\ lastEvent = [triple |-> <<>>, skipped |-> FALSE, fresh |-> FALSE, at |-> -1]
    /\ delivered = {}
    /\ events = 0

\* the channel exists in the store as create_channel wrote it; the user has
\* no card document yet
InitMetaVars ==
    /\ channel_doc = InitialMeta(SortedByIntimacy(RawLevels))
    /\ channel_cache = [k \in {ChannelKey} |-> <<>>]
    /\ character_cache = <<>>
    /\ card_doc = [exists |-> FALSE, cards |-> {}]
    /\ pc = [p \in Procs |-> "idle"]
    /\ loc = [p \in Procs |-> NoLocals]
    /\ started = 0
    /\ attempts = [k \in Tiers |-> 0]
    /\ committed = [k \in Tiers |-> 0]
    /\ rewrites = 0

InitTurnVars ==
    /\ turn_pc = "idle"
    /\ turn_in = NoInput
    /\ stop_typing_event = FALSE
    /\ typing_task = [pc |-> "off", remaining |-> 0]
    /\ submitted = [r \in Requests |-> "off"]
    /\ poll = [r \in Requests |-> NoPoll]
    /\ response = NoResponse
    /\ sent_messages = <<>>
    /\ failures = {}

\* the channel document exists with its fields; nothing is cached
InitDocVars ==
    /\ doc_fields = [f \in Fields |-> 0]
    /\ doc_cached = NoFields
    /\ upd = [w \in Writers |-> NoUpdate]
    /\ updates = 0

\* the message cache is empty after construction
InitMsgVars ==
    /\ message_cache = NoEntries
    /\ fetch = [w \in Fetchers |-> NoFetch]
    /\ next_text = 0
    /\ truncations = 0
    /\ calls = 0

\* no record of the character is stored yet; nothing is cached
InitCharVars ==
    /\ characters_doc = NoCharacterDocument
    /\ character_entries = NoFields
    /\ character_call = NoCharacterCall
    /\ character_calls = 0

\* the channel has no document yet; nothing is cached
InitChanVars ==
    /\ channels_doc = NoChannelDocument
    /\ channel_entries = NoFields
    /\ channel_call = NoChannelCall
    /\ channel_calls = 0

\* no channel was created yet
InitCreateVars ==
    /\ created_entries = NoFields
    /\ created_doc = [exists |-> FALSE, data |-> NoCreateCall.channel_data]
    /\ create_call = NoCreateCall
    /\ creates = 0

ModeTurnIds == 1..NModeTurns
NoModeTurn == [pc |-> "idle", chat_mode |-> "", raw |-> <<>>, intimacy |-> 0,
               new_meta |-> <<>>, new_card |-> ""]

InitModeVars ==
    /\ mode_turn = [t \in ModeTurnIds |-> NoModeTurn]
    /\ state_writes = {}
    /\ mode_returned = {}
    /\ mode_turns = 0

\* the plugin classes discover_plugins may find, by plugin_name
PluginNames == {"AsyncStreamChatPlugin", "AsyncLevelPlugin", "EchoPlugin"}
NoResults == [n \in {} |-> 0]
NoDispatch == [pc |-> "idle", target |-> "", plugins |-> <<>>, i |-> 0,
               results |-> NoResults, invoked |-> <<>>, raised |-> {}]

InitPlugVars ==
    /\ plugins = <<>>
    /\ dispatch = NoDispatch
    /\ dispatches = 0

\* the keys of SpecExpiry: two channels of one user
CacheKeys == {<<UserId, "ch1">>, <<UserId, "ch2">>}

InitExpiryVars ==
    /\ cache_now = 0
    /\ message_links = <<>>
    /\ turn_hist = [k \in CacheKeys |-> [last |-> -1, short |-> TRUE]]
    /\ cache_turns = 0

Init ==
    /\ InitDedupVars /\ InitMetaVars /\ InitTurnVars /\ InitDocVars /\ InitMsgVars
    /\ InitCharVars /\ InitChanVars /\ InitCreateVars
    /\ level_eval = NoEval
    /\ InitModeVars
    /\ InitPlugVars
    /\ InitExpiryVars
    /\ character_other = NoCharacterCall
    /\ delta_sum = 0
    /\ handler = [h \in 1..NHandlers |->
                    [pc |-> "idle", sender |-> "", receiver |-> "", channel_id |-> "",
                     message_id |-> "", text |-> 0, status |-> ""]]
    /\ message_entries = NoEntries
    /\ effects = [events |-> 0, requests |-> 0, channel_updates |-> 0, outbound |-> 0]
    /\ tier_eval = [levels |-> <<>>, evaluated |-> FALSE, total |-> 0,
                    old_lock_level |-> 1, result |-> <<>>]
    /\ channel_links = <<>>
    /\ last_read = [op |-> "", key |-> <<>>, absent |-> FALSE]
    /\ read_ops = 0

NextDedup ==
    \/ \E u \in HumanIds, c \in ChannelIds, m \in MessageIds : HandleMessageDedup(u, c, m)
    \/ Tick

SpecDedup == Init /\ [][NextDedup]_vars

NextMeta ==
    \/ \E p \in Procs, d \in Deltas : UpdateMetaStart(p, d)
    \/ \E p \in Procs, ok \in BOOLEAN : ChannelGet(p, ok)
    \/ \E p \in Procs : ChannelGot(p)
    \/ \E p \in Procs : CharacterGot(p)
    \/ \E p \in Procs : CardSnapshot(p)
    \/ \E p \in Procs, ok \in BOOLEAN : CardCommit(p, ok)
    \/ \E p \in Procs : CardDone(p)
    \/ \E p \in Procs : DocGet(p)
    \/ \E p \in Procs, ok \in BOOLEAN : DocSet(p, ok)
    \/ ChannelCacheEvict
    \/ CharacterCacheEvict

SpecMeta == Init /\ [][NextMeta]_vars

NextTurn ==
    \/ \E m \in ChatModes, c, ch, l \in BOOLEAN : TurnStart(m, c, ch, l)
    \/ Prepare
    \/ \E r \in Requests, a \in SubmitAnswers : SubmitAnswer(r, a)
    \/ AfterSubmit
    \/ \E r \in Requests : PollCheck(r)
    \/ \E r \in Requests, a \in PollAnswers : PollAnswer(r, a)
    \/ \E r \in Requests : PollWake(r)
    \/ PollsDone
    \/ TypingJoined
    \/ \E ok \in BOOLEAN : Scored(ok)
    \/ HandlerAfter
    \/ PluginSend
    \/ TypingCheck
    \/ TypingSend
    \/ TypingWake
    \/ TurnClock

SpecTurn == Init /\ [][NextTurn]_vars

NextDoc ==
    \/ \E w \in Writers, f \in Fields : UpdateStart(w, f)
    \/ \E w \in Writers, ok \in BOOLEAN : UpdateGet(w, ok)
    \/ \E w \in Writers, ok \in BOOLEAN : UpdateSet(w, ok)

SpecDoc == Init /\ [][NextDoc]_vars

NextMsg ==
    \/ \E w \in Fetchers, role \in Roles : FetchHit(w, role)
    \/ \E w \in Fetchers, role \in Roles : FetchMissStart(w, role)
    \/ \E w \in Fetchers, r \in ResponseShapes : FetchMissDone(w, r[1], r[2], r[3])
    \/ \E role \in Roles : AddMessage(role)
    \/ \E n \in StoreLengths : StoreChatHistory(n)
    \/ ClearCache

SpecMsg == Init /\ [][NextMsg]_vars

NextChar ==
    \/ \E request_locale \in RequestLocales : CharacterStart(request_locale)
    \/ CharacterDone
    \/ CharacterExpires
    \/ \E doc \in CharacterDocuments : CharacterDocumentChanges(doc)

SpecChar == Init /\ [][NextChar]_vars

NextChan ==
    \/ ChannelDataStart
    \/ \E ok \in BOOLEAN : ChannelDataGot(ok)
    \/ ChannelDataExpires
    \/ \E doc \in {NoChannelDocument}
                    \cup {[exists |-> TRUE, data |-> d] : d \in ChannelDocuments} :
          ChannelDocumentChanges(doc)

SpecChan == Init /\ [][NextChan]_vars

NextCreate ==
    \/ \E channel_data \in ChannelDatas : CreateStart(channel_data)
    \/ \E ok \in BOOLEAN : CreateSet(ok)

SpecCreate == Init /\ [][NextCreate]_vars

NextLevels ==
    \/ \E levels \in Ladders : LadderCached(levels)
    \/ \E total_intimacy \in Scores : Evaluate(total_intimacy)

SpecLevels == Init /\ [][NextLevels]_vars

\* the event loop runs every ready coroutine and every timer that is due
SpecTurnFair ==
    /\ Init /\ [][NextTurn]_vars
    /\ WF_vars(Prepare)
    /\ \A r \in Requests : WF_vars(\E a \in SubmitAnswers : SubmitAnswer(r, a))
    /\ WF_vars(AfterSubmit)
    /\ \A r \in Requests : WF_vars(PollCheck(r))
    /\ \A r \in Requests : WF_vars(\E a \in PollAnswers : PollAnswer(r, a))
    /\ \A r \in Requests : WF_vars(PollWake(r))
    /\ WF_vars(PollsDone)
    /\ WF_vars(TypingJoined)
    /\ WF_vars(\E ok \in BOOLEAN : Scored(ok))
    /\ WF_vars(HandlerAfter)
    /\ WF_vars(PluginSend)
    /\ WF_vars(TypingCheck)
    /\ WF_vars(TypingSend)
    /\ WF_vars(TypingWake)
    /\ WF_vars(TurnClock)

(***************************************************************************)
(* Claims about the progression update.                                    *)
(***************************************************************************)
AllIdle == \A p \in Procs : pc[p] = "idle"

\* the card id of a tier of the character, f"{character_id}-card-{k}"
CardOf(k) == CharacterId \o "-card-" \o ToString(k)

\* the records of collectedCardIdsDict under the id of tier k
RecordsOf(k) == Cardinality({id \in card_doc.cards : id = CardOf(k)})

\* every execution of the run so far took the advance to the tier k, which
\* has a card, and so called update_dict_field for it; there were several
AllCrossed(k) == started >= 2 /\ attempts[k] = started

LevelKeyOf(meta_data) ==
    FirstKey(SortedByIntimacy(RawLevels), LAMBDA l : l.title = meta_data.current_level)

\* an execution has computed its new meta_data
Computed(p) == loc[p].new_meta # <<>>

C4_OncePerMessageAndNoFalseSkip ==
    /\ \A t \in Triples : \A i, j \in DOMAIN runs[t] :
           i < j => runs[t][j] - runs[t][i] >= PROCESSED_REQUEST_TTL
    /\ lastEvent.skipped => ~lastEvent.fresh

\* the case of C4: an event of a triple never delivered before was skipped
C4_FreshSkipped == lastEvent.skipped /\ lastEvent.fresh

\* C5: once a triple has been marked, has_processed_message answers true at
\* every moment before the mark's TTL has elapsed and false from then on,
\* whatever else was marked in between.
C5_ProcessedExactlyWithinTTL ==
    \A t \in Triples : lastMark[t] >= 0 =>
        (has_processed_message(processed_messages, now, t[1], t[2], t[3])
            <=> now < lastMark[t] + PROCESSED_REQUEST_TTL)

\* the case of C5: a marked triple whose TTL has not elapsed is reported as
\* not processed
C5_ForgottenWithinTTL ==
    \E t \in Triples :
        /\ lastMark[t] >= 0
        /\ now < lastMark[t] + PROCESSED_REQUEST_TTL
        /\ ~has_processed_message(processed_messages, now, t[1], t[2], t[3])

(***************************************************************************)
(* Claims about the turn.                                                  *)
(***************************************************************************)

\* C6: generate_response never raises, and whenever a stage of the turn
\* failed (context loading, prompt building, mode lookup, submission,
\* polling, scoring) what it returns is the fixed apology with the response
\* type "error".
C6_NeverRaisesAndApologises ==
    /\ response.state # "raised"
    /\ (response.state = "returned" /\ failures # {})
          => (response.text = APOLOGY /\ response.response_type = "error")

\* C7: a turn never ends with no message passed to send_message, also when
\* a stage of it failed.
C7_TurnEndsWithMessageSent == turn_pc = "done" => Len(sent_messages) >= 1

StillPresent(old, new, i) == \E j \in 1..Len(new) : new[j] = old[i]

C17_HitAppendsOrStages ==
    [][\A w \in Fetchers :
          (fetch'[w] # fetch[w] /\ fetch'[w].hit)
             => LET old == message_cache[MessageKey]
                    new == message_cache'[MessageKey]
                    text == fetch'[w].text
                    n == Len(new.chat_history)
                IN  /\ fetch'[w].role = "assistant"
                          => /\ n >= 1
                             /\ new.chat_history[n] = [role |-> "assistant", content |-> text]
                             /\ \E m \in 0..Len(old.chat_history) :
                                   /\ SubSeq(new.chat_history, 1, n - 1)
                                         = SubSeq(old.chat_history, m + 1, Len(old.chat_history))
                                   /\ (m > 0 => n = MAX_MESSAGES)
                             /\ new.current_message = old.current_message
                    /\ fetch'[w].role = "user"
                          => /\ new.current_message = text
                             /\ new.chat_history = old.chat_history]_vars

\* a user text is staged, then an assistant text was appended on a cache hit:
\* the history ends with it and the staged text is still there
C17_AssistantAppendedAfterStaging ==
    /\ has_messages_history_cache(message_cache)
    /\ \E w \in Fetchers :
          LET e == message_cache[MessageKey]
          IN  /\ fetch[w].hit
              /\ fetch[w].role = "assistant"
              /\ Len(e.chat_history) >= 2
              /\ e.chat_history[Len(e.chat_history)].content = fetch[w].text
              /\ e.current_message # 0
              /\ e.current_message < fetch[w].text

\* C18: on a cache miss fetch_and_cache_messages leaves the entry with the
\* converted transport messages as its history and with the incoming text in
\* the current-message slot.
C18_MissStoresConvertedAndStages ==
    [][\A w \in Fetchers :
          (fetch[w].pc = "wait" /\ fetch'[w].pc = "idle")
             => /\ has_messages_history_cache(message_cache')
                /\ message_cache'[MessageKey].chat_history
                      = convert_stream_messages_to_cache_format(fetch'[w].messages)
                /\ message_cache'[MessageKey].current_message = fetch'[w].text]_vars

(***************************************************************************)
(* Claims about the character and the channel state fetched on a miss.     *)
(***************************************************************************)
\* C19: on a cache miss fetch_and_cache_character gives the character of the
\* requested locale when the record's i18n has that locale, the character of
\* the declared default locale when i18n has not the requested but the
\* default one, and the empty result when i18n has neither.
C19_RequestedElseDefaultElseEmpty ==
    [][(character_call.pc = "query" /\ character_call'.pc = "idle" /\ characters_doc.exists)
          => LET i18n == characters_doc.data.i18n
                 requested == character_call.request_locale
                 default == characters_doc.data.default_locale
                 result == character_call'.result
             IN  /\ requested \in DOMAIN i18n
                       => result = parse_character(i18n, requested)
                 /\ (requested \notin DOMAIN i18n /\ default \in DOMAIN i18n)
                       => result = parse_character(i18n, default)
                 /\ (requested \notin DOMAIN i18n /\ default \notin DOMAIN i18n)
                       => result = EmptyResult]_vars

C21_MissingFieldsRaiseAndWriteNothing ==
    [][(create_call.pc = "idle" /\ creates' = creates + 1)
          => LET channel_data == create_call'.channel_data
                 missing == \/ channel_data.user_persona = "None"
                            \/ required_meta_keys \ DOMAIN channel_data.meta_data # {}
             IN  /\ missing => /\ create_call'.raised
                               /\ create_call'.pc = "idle"
                               /\ created_entries' = created_entries
                               /\ created_doc' = created_doc
                 /\ create_call'.raised => missing]_vars

\* a channel was created, then a call with a persona but one meta_data key
\* short raised: the entry and the document of the first call are as they were
C21_RaisedAfterCreation ==
    /\ create_call.raised
    /\ create_call.channel_data.user_persona = "p1"
    /\ created_doc.exists
    /\ MessageKey \in DOMAIN created_entries
    /\ created_entries[MessageKey].user_persona = "{}"

(***************************************************************************)
(* Claims about the level functions.                                       *)
(***************************************************************************)
\* the tiers of the evaluated ladder at or below, and above, the total
TiersReached == {i \in 1..Len(level_eval.levels) :
                    level_eval.levels[i].intimacy <= level_eval.total}
TiersAbove == {i \in 1..Len(level_eval.levels) :
                  level_eval.levels[i].intimacy > level_eval.total}

\* C22: get_current_level_title returns the title of the tier with the
\* greatest threshold that is at most the total, the one with the larger
\* index among tiers sharing that threshold, and "" when no threshold is at
\* most the total.
C22_CurrentIsGreatestReached ==
    level_eval.evaluated
       => IF TiersReached = {} THEN level_eval.current_level = ""
          ELSE \E i \in TiersReached :
                  /\ \A j \in TiersReached :
                        \/ level_eval.levels[j].intimacy < level_eval.levels[i].intimacy
                        \/ /\ level_eval.levels[j].intimacy = level_eval.levels[i].intimacy
                           /\ j <= i
                  /\ level_eval.current_level = level_eval.levels[i].title

\* two tiers share the threshold 3 and the total reaches it: the third tier
C22_TieGoesToLargerIndex ==
    /\ level_eval.evaluated
    /\ Len(level_eval.levels) = 3
    /\ level_eval.levels[2].intimacy = 3
    /\ level_eval.levels[3].intimacy = 3
    /\ level_eval.total = 5
    /\ level_eval.current_level = level_eval.levels[3].title

\* C23: on a sorted ladder the index of the tier selected for a smaller or
\* equal score is not greater than the index selected for the other score,
\* no tier (-1) being below every tier.
C23_TierMonotoneInScore ==
    level_eval.before
       => /\ level_eval.total_before <= level_eval.total
                => level_eval.max_level_before <= level_eval.max_level
          /\ level_eval.total <= level_eval.total_before
                => level_eval.max_level <= level_eval.max_level_before

\* no tier for the first score, the second tier or a higher one for the next
C23_FromNoTierToHigherTier ==
    /\ level_eval.before
    /\ level_eval.total_before < level_eval.total
    /\ level_eval.max_level_before = -1
    /\ level_eval.max_level >= 2

\* C24: for a non-empty ladder get_next_level_title returns the title of the
\* tier with the smallest threshold above the total, and the title of the
\* highest tier when no threshold is above the total.
C24_NextIsLeastAboveElseHighest ==
    (level_eval.evaluated /\ level_eval.levels # <<>>)
       => IF TiersAbove # {}
          THEN \E i \in TiersAbove :
                  /\ \A j \in TiersAbove :
                        level_eval.levels[i].intimacy <= level_eval.levels[j].intimacy
                  /\ level_eval.next_level = level_eval.levels[i].title
          ELSE \E i \in 1..Len(level_eval.levels) :
                  /\ \A j \in 1..Len(level_eval.levels) :
                        level_eval.levels[j].intimacy <= level_eval.levels[i].intimacy
                  /\ level_eval.next_level = level_eval.levels[i].title

\* C25: intimacy_percentage is an integer in 0..100; it is 100 when no tier
\* lies above the total (which includes the empty ladder); when a tier lies
\* above it is the quotient (total - current) * 100 / (next - current),
\* rounded to a nearest integer and clamped to 0..100, current being the
\* threshold of the current tier (0 while no tier is reached) and next the
\* smallest threshold above the total, wherever next exceeds current.
C25_PercentageRoundedAndClamped ==
    level_eval.evaluated
       => LET p == level_eval.intimacy_percentage
              levels == level_eval.levels
              current == IF TiersReached = {} THEN 0
                         ELSE levels[CHOOSE i \in TiersReached :
                                        \A j \in TiersReached : j <= i].intimacy
              next == levels[CHOOSE i \in TiersAbove :
                                \A j \in TiersAbove : i <= j].intimacy
          IN  /\ p \in 0..100
              /\ TiersAbove = {} => p = 100
              /\ (TiersAbove # {} /\ next > current)
                    => \E r \in -1000..1000 :
                          /\ LET d == (level_eval.total - current) * 100 - r * (next - current)
                             IN  2 * d <= next - current /\ -2 * d <= next - current
                          /\ p = Min(100, Max(0, r))

\* a total one third of the way from the first tier to the second
C25_PartWayToNextTier ==
    /\ level_eval.evaluated
    /\ Len(level_eval.levels) >= 2
    /\ level_eval.levels[1].intimacy = 0
    /\ level_eval.levels[2].intimacy = 3
    /\ level_eval.total = 1
    /\ level_eval.intimacy_percentage = 33

(***************************************************************************)
(* The three selectors of ChatOrchestrator that take the chat mode.  A     *)
(* Python dict is a function on its keys; d[k] raises KeyError off the     *)
(* keys, d.get(k, default) returns the default there.                      *)
(***************************************************************************)
KeyError == "KeyError"

\* lines 169-178: self.RESPONSE_MODEL
RESPONSE_MODEL ==
    [k \in RESPONSE_MODEL_KEYS |->
        CASE k = "tietu" -> "sticker"
          [] k = "xiaoshuo" -> "story"
          [] k = "jianxun" -> "text"
          [] k = "kaiche" -> "stimulation"
          [] k = "peiban" -> "stimulation"
          [] k = "qinmidu" -> "intimacy"
          [] k = "guanka" -> "level"
          [] OTHER -> "user_persona"]

\* lines 361-369: mode_map
mode_map_keys == {"xiaoshuo", "gushi", "jianxun", "kaiche", "guanka", "peiban", "tietu"}
mode_map ==
    [k \in mode_map_keys |->
        CASE k \in {"xiaoshuo", "gushi"} -> "story"
          [] k = "jianxun" -> "text"
          [] k \in {"kaiche", "peiban"} -> "NSFW"
          [] k = "guanka" -> "level"
          [] OTHER -> "sticker"]

\* lines 377-383: the dict of _select_model_for_chat_mode
model_map_keys == {"xiaoshuo", "jianxun", "kaiche", "peiban", "qinmidu"}
model_map ==
    [k \in model_map_keys |->
        CASE k \in {"xiaoshuo", "jianxun"} -> "gpt-4.1-2025-04-14"
          [] k \in {"kaiche", "peiban"} -> "grok-3"
          [] OTHER -> "None"]

\* line 180: return self.RESPONSE_MODEL[chat_mode]
get_response_model_for_mode(chat_mode) ==
    IF chat_mode \in DOMAIN RESPONSE_MODEL THEN RESPONSE_MODEL[chat_mode]
    ELSE KeyError

\* line 371: return mode_map.get(chat_mode, "story")
get_chat_mode(chat_mode) ==
    IF chat_mode \in DOMAIN mode_map THEN mode_map[chat_mode] ELSE "story"

\* lines 377-383: return {...}.get(chat_mode, "default model")
select_model_for_chat_mode(chat_mode) ==
    IF chat_mode \in DOMAIN model_map THEN model_map[chat_mode] ELSE "default model"

\* C26: for the mode of every turn, the handler's default mode included, the
\* model selector, the response-shape selector and the prompt-format selector
\* each return a value without raising, and no turn is given up at the
\* look-up of its mode.
C26_EverySelectorReturns ==
    turn_in.chat_mode # ""
       => /\ select_model_for_chat_mode(turn_in.chat_mode) # KeyError
          /\ get_response_model_for_mode(turn_in.chat_mode) # KeyError
          /\ get_chat_mode(turn_in.chat_mode) # KeyError
          /\ "mode" \notin failures

(***************************************************************************)
(* generate_response as far as the channel state goes: the context load    *)
(* (fetch_and_cache_channel_data), the selectors of lines 50-60, the       *)
(* requests, and _update_meta_data unless the mode is the level mode.      *)
(* The ladder is the cached ladder of the character of SpecMeta.           *)
(***************************************************************************)
CachedLevels == SortedByIntimacy(query_document(CharacterId).levels)

\* line 148 without its test
updates_meta_in_every_mode(chat_mode) == TRUE

\* line 148: if (chat_mode != "關卡")
updates_meta(chat_mode) == chat_mode # "guanka"

\* lines 84-88 and 107: the companion mode draws 4 or 5, the other modes
\* take the delta of the scoring request
ModeDeltas(chat_mode) == IF chat_mode = "peiban" THEN {4, 5} ELSE Deltas

WriteOf(t, target, fill) ==
    [chat_mode |-> mode_turn[t].chat_mode, target |-> target, fill |-> fill]

\* the turn ends
ModeEnd(t) == mode_turn' = [mode_turn EXCEPT ![t] = NoModeTurn]

\* line 49 and _get_complete_prompt_context line 210:
\* fetch_and_cache_channel_data returns the cached entry or awaits the store
ModeTurnStart(t, chat_mode) ==
    /\ mode_turn[t].pc = "idle"
    /\ mode_turns < MaxModeTurns
    /\ mode_turns' = mode_turns + 1
    /\ mode_turn' = [mode_turn EXCEPT ![t] =
                        [NoModeTurn EXCEPT !.chat_mode = chat_mode,
                                           !.pc = IF channel_cache[ChannelKey] # <<>>
                                                  THEN "prepare" ELSE "context_get"]]
    /\ UNCHANGED <<state_writes, mode_returned>>
    /\ UNCHANGED <<metaVars, modeRest>>

\* FirebaseService.get_document in the worker thread: the document, or None
\* when the read fails
ModeContextGet(t, ok) ==
    /\ mode_turn[t].pc = "context_get"
    /\ mode_turn' = [mode_turn EXCEPT ![t].pc = "context_got",
                                      ![t].raw = IF ok THEN <<channel_doc>> ELSE <<>>]
    /\ UNCHANGED <<state_writes, mode_returned, mode_turns>>
    /\ UNCHANGED <<metaVars, modeRest>>

\* fetch_and_cache_channel_data lines 213-231: None leaves meta_data {} and
\* _format_prompt_for_llm raises at line 261, which ends the turn; else the
\* converted document is stored in the cache
ModeContextGot(t) ==
    /\ mode_turn[t].pc = "context_got"
    /\ IF mode_turn[t].raw = <<>>
       THEN /\ ModeEnd(t)
            /\ UNCHANGED <<channel_cache, state_writes>>
       ELSE /\ channel_cache' = [channel_cache EXCEPT ![ChannelKey] = mode_turn[t].raw]
            /\ state_writes' = state_writes \cup {WriteOf(t, "cache", TRUE)}
            /\ mode_turn' = [mode_turn EXCEPT ![t].pc = "prepare", ![t].raw = <<>>]
    /\ UNCHANGED <<mode_returned, mode_turns>>
    /\ UNCHANGED <<channel_doc, character_cache, card_doc, pc, loc, started,
                   attempts, committed, rewrites, modeRest>>

\* lines 50-60: a mode RESPONSE_MODEL does not have ends the turn
ModePrepare(t) ==
    /\ mode_turn[t].pc = "prepare"
    /\ IF get_response_model_for_mode(mode_turn[t].chat_mode) = KeyError
       THEN ModeEnd(t)
       ELSE mode_turn' = [mode_turn EXCEPT ![t].pc = "generate"]
    /\ UNCHANGED <<state_writes, mode_returned, mode_turns>>
    /\ UNCHANGED <<metaVars, modeRest>>

\* lines 62-153: the requests are made and awaited; what they raise goes to
\* the except clause; else _update_meta_data is awaited unless the mode is
\* the level mode, for which the response is returned at once
ModeGenerate(t, ok, intimacy) ==
    /\ mode_turn[t].pc = "generate"
    /\ IF ~ok
       THEN ModeEnd(t) /\ UNCHANGED mode_returned
       ELSE IF updates_meta(mode_turn[t].chat_mode)
       THEN /\ mode_turn' = [mode_turn EXCEPT ![t].pc = "update",
                                              ![t].intimacy = intimacy]
            /\ UNCHANGED mode_returned
       ELSE /\ ModeEnd(t)
            /\ mode_returned' = mode_returned \cup {mode_turn[t].chat_mode}
    /\ UNCHANGED <<state_writes, mode_turns>>
    /\ UNCHANGED <<metaVars, modeRest>>

\* _update_meta_data lines 667-754 from the channel data on: nothing is
\* written when the total has reached no tier; a tier advance goes to the
\* card write; else update_and_cache_channel_data stores the new meta_data
\* in the cache and goes on to the document.  cc is the channel-state entry
\* and ws the writes of the stretch so far.
ModeCompute(t, old_meta_data, cc, ws) ==
    LET r == compute_meta(old_meta_data, CachedLevels, mode_turn[t].intimacy)
    IN  IF ~r.write
        THEN /\ ModeEnd(t)
             /\ mode_returned' = mode_returned \cup {mode_turn[t].chat_mode}
             /\ channel_cache' = [channel_cache EXCEPT ![ChannelKey] = cc]
             /\ state_writes' = state_writes \cup ws
        ELSE IF r.new_card # ""
        THEN /\ mode_turn' = [mode_turn EXCEPT ![t].pc = "card",
                                               ![t].raw = <<>>,
                                               ![t].new_meta = <<r.meta_data>>,
                                               ![t].new_card = r.new_card]
             /\ channel_cache' = [channel_cache EXCEPT ![ChannelKey] = cc]
             /\ state_writes' = state_writes \cup ws
             /\ UNCHANGED mode_returned
        ELSE /\ mode_turn' = [mode_turn EXCEPT ![t].pc = "doc",
                                               ![t].raw = <<>>,
                                               ![t].new_meta = <<r.meta_data>>]
             /\ channel_cache' = [channel_cache EXCEPT ![ChannelKey] = <<r.meta_data>>]
             /\ state_writes' = state_writes \cup ws \cup {WriteOf(t, "cache", FALSE)}
             /\ UNCHANGED mode_returned

\* _update_meta_data lines 639-648: fetch_and_cache_channel_data returns the
\* cached entry or awaits the store
ModeUpdateStart(t) ==
    /\ mode_turn[t].pc = "update"
    /\ IF channel_cache[ChannelKey] # <<>>
       THEN ModeCompute(t, channel_cache[ChannelKey][1], channel_cache[ChannelKey], {})
       ELSE /\ mode_turn' = [mode_turn EXCEPT ![t].pc = "update_get"]
            /\ UNCHANGED <<channel_cache, state_writes, mode_returned>>
    /\ UNCHANGED mode_turns
    /\ UNCHANGED <<channel_doc, character_cache, card_doc, pc, loc, started,
                   attempts, committed, rewrites, modeRest>>

\* the store answers _update_meta_data: None makes line 649 raise, which
\* the except clause of line 756 catches; else the document is cached
ModeUpdateGot(t, ok) ==
    /\ mode_turn[t].pc = "update_get"
    /\ IF ~ok
       THEN /\ ModeEnd(t)
            /\ mode_returned' = mode_returned \cup {mode_turn[t].chat_mode}
            /\ UNCHANGED <<channel_cache, state_writes>>
       ELSE ModeCompute(t, channel_doc, <<channel_doc>>, {WriteOf(t, "cache", TRUE)})
    /\ UNCHANGED mode_turns
    /\ UNCHANGED <<channel_doc, character_cache, card_doc, pc, loc, started,
                   attempts, committed, rewrites, modeRest>>

\* lines 711-733 and update_and_cache_channel_data lines 244-251: the card is
\* written with update_dict_field, whose failure is caught; then the new
\* meta_data is stored in the cache
ModeCard(t, ok) ==
    /\ mode_turn[t].pc = "card"
    /\ card_doc' = IF ok THEN [exists |-> TRUE,
                               cards |-> card_doc.cards \cup {mode_turn[t].new_card}]
                   ELSE card_doc
    /\ channel_cache' = [channel_cache EXCEPT ![ChannelKey] = mode_turn[t].new_meta]
    /\ state_writes' = state_writes \cup {WriteOf(t, "artifact", FALSE),
                                          WriteOf(t, "cache", FALSE)}
    /\ mode_turn' = [mode_turn EXCEPT ![t].pc = "doc"]
    /\ UNCHANGED <<mode_returned, mode_turns>>
    /\ UNCHANGED <<channel_doc, character_cache, pc, loc, started,
                   attempts, committed, rewrites, modeRest>>

\* update_and_cache_channel_data lines 255-265: set_document(merge=True) with
\* the new meta_data; a failure returns False, which the caller ignores
ModeDoc(t, ok) ==
    /\ mode_turn[t].pc = "doc"
    /\ channel_doc' = IF ok THEN mode_turn[t].new_meta[1] ELSE channel_doc
    /\ state_writes' = state_writes \cup {WriteOf(t, "document", FALSE)}
    /\ ModeEnd(t)
    /\ mode_returned' = mode_returned \cup {mode_turn[t].chat_mode}
    /\ UNCHANGED mode_turns
    /\ UNCHANGED <<channel_cache, character_cache, card_doc, pc, loc, started,
                   attempts, committed, rewrites, modeRest>>

NextModes ==
    \/ \E t \in ModeTurnIds, m \in ChatModes : ModeTurnStart(t, m)
    \/ \E t \in ModeTurnIds, ok \in BOOLEAN : ModeContextGet(t, ok)
    \/ \E t \in ModeTurnIds : ModeContextGot(t)
    \/ \E t \in ModeTurnIds : ModePrepare(t)
    \/ \E t \in ModeTurnIds, ok \in BOOLEAN :
          \E d \in ModeDeltas(mode_turn[t].chat_mode) : ModeGenerate(t, ok, d)
    \/ \E t \in ModeTurnIds : ModeUpdateStart(t)
    \/ \E t \in ModeTurnIds, ok \in BOOLEAN : ModeUpdateGot(t, ok)
    \/ \E t \in ModeTurnIds, ok \in BOOLEAN : ModeCard(t, ok)
    \/ \E t \in ModeTurnIds, ok \in BOOLEAN : ModeDoc(t, ok)
    \/ ChannelCacheEvict

SpecModes == Init /\ [][NextModes]_vars

Range(seq) == {seq[i] : i \in 1..Len(seq)}

\* d[k] = v of a Python dict
DictSet(d, k, v) == [n \in DOMAIN d \cup {k} |-> IF n = k THEN v ELSE d[n]]

\* what a handler gives: its result, or the exception it raised
HandlerOutcomes == {"result", "raised"}
ResultOf(name) == [kind |-> "result", of |-> name]
ErrorOf(name) == [kind |-> "error", of |-> name]

\* load_plugins lines 66-78: the plugin is constructed and initialised; when
\* that raises it is not registered; else it is stored under its plugin_name
LoadPlugin(name, ok) ==
    /\ dispatch.pc = "idle"
    /\ dispatches = 0
    /\ name \notin Range(plugins)
    /\ plugins' = IF ok THEN Append(plugins, name) ELSE plugins
    /\ UNCHANGED <<dispatch, dispatches>>
    /\ UNCHANGED plugRest

\* get_plugin: self._plugins.get(plugin_name)
get_plugin(plugin_name) ==
    IF plugin_name \in Range(plugins) THEN <<plugin_name>> ELSE <<>>

\* handle_event lines 121-126: the plugins to go through; a target that is
\* not registered gives [None], which the test of line 128 skips
HandleEventStart(target_plugin) ==
    /\ dispatch.pc = "idle"
    /\ dispatches < MaxDispatches
    /\ dispatches' = dispatches + 1
    /\ dispatch' = [NoDispatch EXCEPT
                       !.pc = "loop",
                       !.target = target_plugin,
                       !.plugins = IF target_plugin # "" THEN get_plugin(target_plugin)
                                   ELSE plugins,
                       !.i = 1]
    /\ UNCHANGED plugins
    /\ UNCHANGED plugRest

\* the except clause leaving the loop
on_exception_leave(call, name) ==
    [call EXCEPT !.results = DictSet(call.results, name, ErrorOf(name)),
                 !.raised = call.raised \cup {name},
                 !.i = Len(call.plugins) + 1]

\* lines 136-138: the exception is logged and wrapped, and the loop goes on
on_exception(call, name) ==
    [call EXCEPT !.results = DictSet(call.results, name, ErrorOf(name)),
                 !.raised = call.raised \cup {name},
                 !.i = call.i + 1]

\* lines 127-138: one pass of the loop: the handler of the next plugin is
\* called (and awaited); its result, or the wrapper of what it raised, is
\* stored under its plugin_name
HandlePlugin(outcome) ==
    /\ dispatch.pc = "loop"
    /\ dispatch.i <= Len(dispatch.plugins)
    /\ LET name == dispatch.plugins[dispatch.i]
           called == [dispatch EXCEPT !.invoked = Append(dispatch.invoked, name)]
       IN  dispatch' = IF outcome = "raised" THEN on_exception(called, name)
                       ELSE [called EXCEPT
                                !.results = DictSet(called.results, name, ResultOf(name)),
                                !.i = called.i + 1]
    /\ UNCHANGED <<plugins, dispatches>>
    /\ UNCHANGED plugRest

\* line 140: return results
HandleEventReturn ==
    /\ dispatch.pc = "loop"
    /\ dispatch.i > Len(dispatch.plugins)
    /\ dispatch' = [dispatch EXCEPT !.pc = "returned"]
    /\ UNCHANGED <<plugins, dispatches>>
    /\ UNCHANGED plugRest

\* the caller has taken the map
HandleEventDone ==
    /\ dispatch.pc = "returned"
    /\ dispatch' = NoDispatch
    /\ UNCHANGED <<plugins, dispatches>>
    /\ UNCHANGED plugRest

NextPlugins ==
    \/ \E name \in PluginNames, ok \in BOOLEAN : LoadPlugin(name, ok)
    \/ \E target \in PluginNames \cup {""} : HandleEventStart(target)
    \/ \E outcome \in HandlerOutcomes : HandlePlugin(outcome)
    \/ HandleEventReturn
    \/ HandleEventDone

SpecPlugins == Init /\ [][NextPlugins]_vars

\* C28: when handle_event has gone to all registered plugins, the handler of
\* every registered plugin was invoked, once, whichever handlers raised, and
\* the map returned has exactly one entry per registered plugin: the
\* handler's result, or the error wrapper for a handler that raised.
C28_EveryPluginInvokedOneEntryEach ==
    (dispatch.pc = "returned" /\ dispatch.target = "")
       => /\ Range(dispatch.invoked) = Range(plugins)
          /\ Len(dispatch.invoked) = Len(plugins)
          /\ DOMAIN dispatch.results = Range(plugins)
          /\ \A n \in Range(plugins) :
                dispatch.results[n] = IF n \in dispatch.raised THEN ErrorOf(n)
                                      ELSE ResultOf(n)

\* three plugins are registered, the handler of the first one raised, and
\* the map has the wrapper for it and the results of the other two
C28_FirstRaisedOthersInvoked ==
    /\ dispatch.pc = "returned" /\ dispatch.target = ""
    /\ Len(plugins) = 3
    /\ dispatch.raised = {plugins[1]}
    /\ Len(dispatch.invoked) = 3
    /\ dispatch.results[plugins[2]].kind = "result"

(***************************************************************************)
(* The message cache over time.  The value of a link is the number of      *)
(* messages the turns have put into the entry since it was created; the    *)
(* content of the entries is the subject of SpecMsg.                       *)
(***************************************************************************)
\* _ensure_cache_exists lines 52-58: `key not in self.message_cache` sets a
\* new entry, which links it with the expiry t + ttl; a key that is present
\* is read with __getitem__, which leaves its link and its expiry alone
ensure_links(links, k, t) ==
    IF TTLContains(links, k, t) THEN links
    ELSE TTLSetItem(links, k, 0, t, MAX_CACHE_SIZE, TTL_SECONDS)

\* add_message, store_chat_history, set_current_message: the dict of the
\* entry is changed in place
change_in_place(links, k, t) ==
    [i \in 1..Len(links) |->
        IF links[i].key = k /\ t < links[i].expires
        THEN [links[i] EXCEPT !.value = @ + 1]
        ELSE links[i]]

\* one turn on the key: fetch_and_cache_messages (the entry is staged on a
\* hit, or created and filled on a miss) and add_message of the user's text
\* (chat_orchestrator.py lines 238-243)
CacheTurn(k) ==
    /\ cache_turns < MaxCacheTurns
    /\ cache_turns' = cache_turns + 1
    /\ message_links' = change_in_place(ensure_links(message_links, k, cache_now),
                                        k, cache_now)
    /\ turn_hist' = [turn_hist EXCEPT ![k] =
                        [last |-> cache_now,
                         short |-> @.short /\ (@.last >= 0
                                                 => cache_now - @.last < TTL_SECONDS)]]
    /\ UNCHANGED cache_now
    /\ UNCHANGED expiryRest

\* time passes
CacheTick ==
    /\ cache_now + CacheTickSeconds <= MaxCacheClock
    /\ cache_now' = cache_now + CacheTickSeconds
    /\ UNCHANGED <<message_links, turn_hist, cache_turns>>
    /\ UNCHANGED expiryRest

NextExpiry ==
    \/ \E k \in CacheKeys : CacheTurn(k)
    \/ CacheTick

SpecExpiry == Init /\ [][NextExpiry]_vars

\* C29: the entry of a key is present as long as every gap between
\* consecutive turns on the key, and the time since the last of them, is
\* shorter than the TTL; and it is absent once a full TTL has passed since
\* the last turn on the key.
C29_PresentWhileTurnsKeepComing ==
    \A k \in CacheKeys :
        turn_hist[k].last >= 0
           => /\ (turn_hist[k].short /\ cache_now - turn_hist[k].last < TTL_SECONDS)
                    => TTLContains(message_links, k, cache_now)
              /\ cache_now - turn_hist[k].last >= TTL_SECONDS
                    => ~TTLContains(message_links, k, cache_now)

(***************************************************************************)
(* Two fetch_and_cache_character calls on one character at the same time   *)
(* (two turns on channels of different locales): the second call goes      *)
(* through the same code as the first.  store_character is called between  *)
(* no two awaits, so the entry is created and filled in one step.          *)
(***************************************************************************)
\* store_character lines 284-289: the entry is created when the character has
\* none, and its system_prompt and levels are set in either case
store_character(entries, system_prompt, levels) ==
    [c \in DOMAIN entries \cup {CharacterId} |->
        IF c = CharacterId THEN [system_prompt |-> system_prompt, levels |-> levels]
        ELSE entries[c]]

\* lines 40-41 for the second call
OtherCharacterStart(request_locale) ==
    /\ character_other.pc = "idle"
    /\ character_calls < MaxFetches
    /\ character_calls' = character_calls + 1
    /\ character_other' =
          IF has_character_cache(character_entries)
          THEN [pc |-> "idle", request_locale |-> request_locale, hit |-> TRUE,
                result |-> character_entries[CharacterId]]
          ELSE [pc |-> "query", request_locale |-> request_locale, hit |-> FALSE,
                result |-> EmptyResult]
    /\ UNCHANGED <<characters_doc, character_entries, character_call>>
    /\ UNCHANGED pairRest

\* lines 44-94 for the second call
OtherCharacterDone ==
    /\ character_other.pc = "query"
    /\ LET raw_data == query_character(characters_doc)
           no_data == raw_data.is_none \/ DOMAIN raw_data.value.i18n = {}
           locale == IF no_data THEN NoLocale
                     ELSE select_locale(raw_data.value, character_other.request_locale)
       IN  IF no_data \/ locale = NoLocale
           THEN /\ character_other' = [character_other EXCEPT !.pc = "idle",
                                                              !.result = EmptyResult]
                /\ UNCHANGED character_entries
           ELSE LET parsed == parse_character(raw_data.value.i18n, locale)
                IN  /\ character_entries' = store_character(character_entries,
                                                            parsed.system_prompt,
                                                            parsed.levels)
                    /\ character_other' =
                          [character_other EXCEPT !.pc = "idle",
                                                  !.result = character_entries'[CharacterId]]
    /\ UNCHANGED <<characters_doc, character_call, character_calls>>
    /\ UNCHANGED pairRest

NextCharPair ==
    \/ \E request_locale \in RequestLocales : CharacterStart(request_locale)
    \/ CharacterDone
    \/ CharacterExpires
    \/ \E doc \in CharacterDocuments : CharacterDocumentChanges(doc)
    \/ \E request_locale \in RequestLocales : OtherCharacterStart(request_locale)
    \/ OtherCharacterDone

SpecCharPair == Init /\ [][NextCharPair]_vars

\* C30: every entry of the character cache has its levels in key order with
\* non-decreasing thresholds, and the content of an entry does not change
\* from the step that caches it to the step that evicts or expires it.
C30_SortedLevelsAndContentFixed ==
    /\ [](\A c \in DOMAIN character_entries :
             LET levels == character_entries[c].levels
             IN  \A i, j \in 1..Len(levels) :
                    i < j => levels[i].intimacy <= levels[j].intimacy)
    /\ [][\A c \in (DOMAIN character_entries) \cap (DOMAIN character_entries') :
             character_entries'[c] = character_entries[c]]_vars

(***************************************************************************)
(* ChatOrchestrator._format_prompt_for_llm: the tier whose tone_style and  *)
(* relationship go into the primary prompt.                                *)
(***************************************************************************)
\* lines 210-217: the meta_data a turn loads: the cached channel state, the
\* stored document on a miss
context_meta_data ==
    IF channel_cache[ChannelKey] # <<>> THEN channel_cache[ChannelKey][1]
    ELSE channel_doc

\* lines 261-266: current_intimacy is meta_data["intimacy"]; the key starts
\* as the first one and follows the ladder up to the first tier whose
\* threshold exceeds current_intimacy (0 stands for the IndexError of an
\* empty ladder)
prompt_level_key(levels, meta_data) ==
    LET current_intimacy == meta_data.intimacy
        passed == {i \in 1..Len(levels) :
                      \A j \in 1..i : levels[j].intimacy <= current_intimacy}
    IN  IF levels = <<>> THEN 0
        ELSE IF passed = {} THEN 1
        ELSE CHOOSE i \in passed : \A j \in passed : j <= i

C32_MissLoadKeepsAppendedTurns ==
    [][\A w \in Fetchers :
          (fetch[w].pc = "wait" /\ fetch'[w].pc = "idle"
              /\ MessageKey \in DOMAIN message_cache)
             => LET old == message_cache[MessageKey].chat_history
                    new == message_cache'[MessageKey].chat_history
                IN  \A i \in 1..Len(old) : StillPresent(old, new, i)]_vars

(***************************************************************************)
(* Progressing turns on one channel with no fault: every store access      *)
(* succeeds, and the deltas are those that leave the total on the ladder   *)
(* (5 of the companion mode, 10 of a scoring request).  The executions of  *)
(* _update_meta_data are those of SpecMeta; delta_sum adds up what they    *)
(* were given.                                                             *)
(***************************************************************************)
SumDeltas == {5, 10}

\* the execution starts, as in SpecMeta
SumStart(p, intimacy) ==
    /\ UpdateMetaBegin(p, intimacy)
    /\ delta_sum' = delta_sum + intimacy
    /\ UNCHANGED <<dedupVars, turnVars, docVars, msgVars, charVars, chanVars,
                   createVars, level_eval, modeVars, plugVars, expiryVars,
                   character_other, aiVars, tier_eval, readVars>>

NextSum ==
    \/ \E p \in Procs, d \in SumDeltas : SumStart(p, d)
    \/ \E p \in Procs : ChannelGet(p, TRUE)
    \/ \E p \in Procs : ChannelGot(p)
    \/ \E p \in Procs : CharacterGot(p)
    \/ \E p \in Procs : CardSnapshot(p)
    \/ \E p \in Procs : CardCommit(p, TRUE)
    \/ \E p \in Procs : CardDone(p)
    \/ \E p \in Procs : DocGet(p)
    \/ \E p \in Procs : DocSet(p, TRUE)

SpecSum == Init /\ [][NextSum]_vars

Handlers == 1..NHandlers
NoReceiver == "None"
AiSenders == {"ai-aria"}
HumanSenders == {"u1"}
\* event_data["members"] as the list of its user ids
MemberLists == { <<"ai-aria", "u1">>, <<"u1", "ai-aria">>, <<"ai-aria">> }
AiChannels == {"c1", "c2"}
AiMessageIds == {"m1"}
AiTexts == {1}
\* the responses of get_channel_messages: [n, shift, empties] of Response
AiResponseShapes == { <<0, 0, "none">>, <<2, 0, "none">> }
\* the texts of a response are created after those of the events
AiFirstText == MaxAiEvents

\* is_ai_message testing for the prefix "ai_", with an underscore
is_ai_message_underscore(user_id) == startswith(user_id, "ai_")

\* stream_chat_utils.is_ai_message: user_id and user_id.startswith('ai-')
is_ai_message(user_id) == startswith(user_id, "ai-")

\* stream_chat_utils.get_receiver_user_id: the first member that is not the
\* sender, None when there is none
RECURSIVE get_receiver_user_id(_, _)
get_receiver_user_id(members, sender_user_id) ==
    IF members = <<>> THEN NoReceiver
    ELSE IF Head(members) # sender_user_id THEN Head(members)
         ELSE get_receiver_user_id(Tail(members), sender_user_id)

\* _get_cache_key
cache_key(user_id, channel_id) == <<user_id, channel_id>>

\* _ensure_cache_exists for the key: a missing entry is created empty
ensure_entry(cache, key) ==
    IF key \in DOMAIN cache THEN cache
    ELSE [k \in DOMAIN cache \cup {key} |-> IF k = key THEN EmptyEntry ELSE cache[k]]

\* add_message for the key
add_message_at(cache, key, role, content) ==
    LET c == ensure_entry(cache, key)
        h == Append(c[key].chat_history, [role |-> role, content |-> content])
    IN  [c EXCEPT ![key].chat_history =
                      IF Len(h) > MAX_MESSAGES THEN Latest(h, MAX_MESSAGES) ELSE h]

\* store_chat_history for the key
store_chat_history_at(cache, key, messages) ==
    LET c == ensure_entry(cache, key)
    IN  [c EXCEPT ![key].chat_history =
                      IF Len(messages) > MAX_MESSAGES
                      THEN Latest(messages, MAX_MESSAGES) ELSE messages]

\* set_current_message for the key
set_current_message_at(cache, key, current_message) ==
    LET c == ensure_entry(cache, key)
    IN  [c EXCEPT ![key].current_message = current_message]

\* fetch_and_cache_messages lines 103-109 for the key
on_cache_hit_at(cache, key, role, current_message) ==
    IF role = "assistant" THEN add_message_at(cache, key, role, current_message)
    ELSE IF role = "user" THEN set_current_message_at(cache, key, current_message)
         ELSE cache

\* fetch_and_cache_messages lines 114-123 for the key
on_cache_miss_at(cache, key, role, current_message, messages_history) ==
    LET converted_messages == convert_stream_messages_to_cache_format(messages_history)
        stored == store_chat_history_at(cache, key, converted_messages)
    IN  IF role = "user" THEN set_current_message_at(stored, key, current_message)
        ELSE stored

\* what the actions of SpecAi leave alone
aiRest == <<metaVars, turnVars, docVars, msgVars, charVars, chanVars, createVars,
            level_eval, modeVars, plugVars, expiryVars, character_other, delta_sum,
            readVars>>
aiDedupRest == <<now, runs, lastMark, lastEvent, delivered, events>>

\* the key of the entry the coroutine h works on: the receiver's for an AI
\* sender (message_handler.py:62), the sender's for a human one (line 83)
HandlerKey(r) ==
    cache_key(IF is_ai_message(r.sender) THEN r.receiver ELSE r.sender, r.channel_id)

\* handle_message lines 38-76 up to the first await that suspends: the
\* duplicate check and the mark; for an AI sender fetch_and_cache_messages
\* with the role assistant, which returns at once on a cache hit; for any
\* other sender the typing.start event
HandleNewMessage(h, sender, members, channel_id, message_id, text) ==
    /\ handler[h].pc = "idle"
    /\ effects.events < MaxAiEvents
    /\ LET r == [pc |-> "idle", sender |-> sender,
                 receiver |-> get_receiver_user_id(members, sender),
                 channel_id |-> channel_id, message_id |-> message_id,
                 text |-> text, status |-> ""]
           key == HandlerKey(r)
       IN  IF has_processed_message(processed_messages, now, sender, channel_id,
                                    message_id)
           THEN /\ handler' = [handler EXCEPT ![h] = [r EXCEPT !.status = "duplicate"]]
                /\ effects' = [effects EXCEPT !.events = @ + 1]
                /\ UNCHANGED <<processed_messages, message_entries>>
           ELSE /\ processed_messages' =
                      mark_message_as_processed(processed_messages, now, sender,
                                                channel_id, message_id)
                /\ IF is_ai_message(sender)
                   THEN /\ effects' = [effects EXCEPT !.events = @ + 1]
                        /\ IF key \in DOMAIN message_entries
                           THEN /\ message_entries' =
                                      on_cache_hit_at(message_entries, key,
                                                      "assistant", text)
                                /\ handler' = [handler EXCEPT ![h] =
                                                 [r EXCEPT !.status = "skipped"]]
                           ELSE /\ handler' = [handler EXCEPT ![h] =
                                                 [r EXCEPT !.pc = "messages_get"]]
                                /\ UNCHANGED message_entries
                   ELSE /\ effects' = [effects EXCEPT !.events = @ + 1,
                                                      !.outbound = @ + 1]
                        /\ handler' = [handler EXCEPT ![h] =
                                         [r EXCEPT !.pc = "generate"]]
                        /\ UNCHANGED message_entries
    /\ UNCHANGED aiDedupRest
    /\ UNCHANGED <<delta_sum, tier_eval, aiRest>>

\* fetch_and_cache_messages lines 112-151 for the AI sender:
\* get_channel_messages has returned, the converted list is stored; lines
\* 66-67: the handler returns skipped and _handle_new_message sends nothing
AiMessagesGot(h, n, shift, empties) ==
    /\ handler[h].pc = "messages_get"
    /\ message_entries' =
          on_cache_miss_at(message_entries, HandlerKey(handler[h]), "assistant",
                           handler[h].text,
                           Response(n, shift, empties, AiFirstText))
    /\ handler' = [handler EXCEPT ![h].pc = "idle", ![h].status = "skipped"]
    /\ UNCHANGED <<effects, dedupVars>>
    /\ UNCHANGED <<delta_sum, tier_eval, aiRest>>

\* generate_response for the human sender, lines 49-149: the context is
\* loaded, which stages the text in the sender's entry and appends it
\* (chat_orchestrator.py:238-243), the inference requests are submitted and
\* the channel state is updated
GenerateResponse(h, n, shift, empties) ==
    /\ handler[h].pc = "generate"
    /\ LET key == HandlerKey(handler[h])
           loaded == IF key \in DOMAIN message_entries
                     THEN on_cache_hit_at(message_entries, key, "user", handler[h].text)
                     ELSE on_cache_miss_at(message_entries, key, "user",
                                           handler[h].text,
                                           Response(n, shift, empties, AiFirstText))
       IN  message_entries' = add_message_at(loaded, key, "user", handler[h].text)
    /\ effects' = [effects EXCEPT !.requests = @ + 1, !.channel_updates = @ + 1]
    /\ handler' = [handler EXCEPT ![h].pc = "send"]
    /\ UNCHANGED dedupVars
    /\ UNCHANGED <<delta_sum, tier_eval, aiRest>>

\* stream_chat_plugin.py lines 108-112: the status is success and
\* send_message posts the answer
SendMessage(h) ==
    /\ handler[h].pc = "send"
    /\ effects' = [effects EXCEPT !.outbound = @ + 1]
    /\ handler' = [handler EXCEPT ![h].pc = "idle", ![h].status = "success"]
    /\ UNCHANGED <<message_entries, dedupVars>>
    /\ UNCHANGED <<delta_sum, tier_eval, aiRest>>

NextAi ==
    \/ \E h \in Handlers, sender \in AiSenders \cup HumanSenders, members \in MemberLists,
          c \in AiChannels, m \in AiMessageIds, text \in AiTexts :
          HandleNewMessage(h, sender, members, c, m, text)
    \/ \E h \in Handlers, r \in AiResponseShapes : AiMessagesGot(h, r[1], r[2], r[3])
    \/ \E h \in Handlers, r \in AiResponseShapes : GenerateResponse(h, r[1], r[2], r[3])
    \/ \E h \in Handlers : SendMessage(h)

SpecAi == Init /\ [][NextAi]_vars

\* the keys the entries of message_entries may have
AiKeys == (AiSenders \cup HumanSenders \cup {NoReceiver}) \X AiChannels

\* the entry of the key, <<>> when the key is absent
EntryOf(cache, key) == IF key \in DOMAIN cache THEN <<cache[key]>> ELSE <<>>

C37_EachCallGetsItsOwnLocale ==
    [][( /\ character_call'.pc = "idle"
         /\ \/ character_calls' = character_calls + 1
            \/ character_call.pc = "query"
         /\ characters_doc.exists
         /\ select_locale(characters_doc.data, character_call'.request_locale)
               \in DOMAIN characters_doc.data.i18n )
          => character_call'.result =
                parse_character(characters_doc.data.i18n,
                                select_locale(characters_doc.data,
                                              character_call'.request_locale))]_vars

(***************************************************************************)
(* Lines 667-754 of _update_meta_data on ladders whose tiers may share a   *)
(* title: the ladder is stored data, and nothing makes its titles          *)
(* distinct.  The thresholds of a ladder differ; every tier has a card, so  *)
(* that the tier of the card shows.                                        *)
(***************************************************************************)
SharedTitles == {"friend", "lover"}
TitledLadders ==
    UNION {{[i \in 1..n |-> [intimacy |-> t[i], title |-> names[i], hasCard |-> TRUE]] :
               t \in {u \in SortedThresholds :
                         Len(u) = n /\ \A i, j \in 1..n : i < j => u[i] < u[j]},
               names \in [1..n -> SharedTitles]} : n \in 1..MaxLadder}
LockLevels == 1..MaxLadder

\* fetch_and_cache_character caches the character with this ladder
TitledLadderCached(levels) ==
    /\ tier_eval.levels # levels
    /\ tier_eval' = [levels |-> levels, evaluated |-> FALSE, total |-> 0,
                     old_lock_level |-> 1, result |-> <<>>]
    /\ UNCHANGED <<delta_sum, aiVars, dedupVars, aiRest>>

\* chat_orchestrator.py lines 651-754: the new meta_data and the card of a
\* turn that found lock_level stored and brings the total to total_intimacy
EvaluateTier(total_intimacy, lock_level) ==
    /\ tier_eval' =
          [levels |-> tier_eval.levels, evaluated |-> TRUE, total |-> total_intimacy,
           old_lock_level |-> lock_level,
           result |-> <<compute_meta([total_intimacy |-> 0, lock_level |-> lock_level],
                                     tier_eval.levels, total_intimacy)>>]
    /\ tier_eval' # tier_eval
    /\ UNCHANGED <<delta_sum, aiVars, dedupVars, aiRest>>

NextTitles ==
    \/ \E levels \in TitledLadders : TitledLadderCached(levels)
    \/ \E total_intimacy \in Scores, lock_level \in LockLevels :
          EvaluateTier(total_intimacy, lock_level)

SpecTitles == Init /\ [][NextTitles]_vars

\* the key of the tier get_next_level_title takes its title from when a
\* threshold lies above the total; 0 when none does
next_level_key(levels, total_intimacy) ==
    LET cands == {i \in 1..Len(levels) : total_intimacy < levels[i].intimacy}
    IN  IF cands = {} THEN 0
        ELSE CHOOSE i \in cands : \A j \in cands :
                \/ levels[i].intimacy < levels[j].intimacy
                \/ /\ levels[i].intimacy = levels[j].intimacy
                   /\ (levels[i].title = levels[j].title => i <= j)
                   /\ (levels[i].title # levels[j].title =>
                          TitleBefore(levels[i].title, levels[j].title))

\* C38: when get_current_level_title selected a tier, the key that
\* _update_meta_data compares with lock_level, stores as lock_level on an
\* advance and numbers the card with is the key of that tier, and the
\* percentage is computed from the threshold of that tier and the threshold
\* of the tier get_next_level_title selected, also when tiers share a title.
C38_KeyAndThresholdsOfSelectedTier ==
    (tier_eval.evaluated /\ max_level(tier_eval.levels, tier_eval.total) >= 1) =>
        LET levels == tier_eval.levels
            total == tier_eval.total
            selected == max_level(levels, total)
            next == next_level_key(levels, total)
            old_lock_level == tier_eval.old_lock_level
            r == tier_eval.result[1]
        IN  /\ r.write
            /\ r.advance <=> selected > old_lock_level
            /\ r.meta_data.lock_level =
                  IF selected > old_lock_level THEN selected ELSE old_lock_level
            /\ r.new_card = IF selected > old_lock_level
                            THEN get_card_id(levels, selected, CharacterId) ELSE ""
            /\ r.meta_data.intimacy_percentage =
                  percentage_of(total, levels[selected].intimacy, next # 0,
                                IF next = 0 THEN 0 ELSE levels[next].intimacy)

\* C39: two different (user id, channel id, message id) triples have
\* different processed-message records: handling an event never makes
\* has_processed_message true for a triple other than the event's own.
C39_MarkOnlyCoversItsOwnTriple ==
    [][\A t \in Triples :
          ( /\ t # lastEvent'.triple
            /\ ~has_processed_message(processed_messages, now, t[1], t[2], t[3]) )
             => ~has_processed_message(processed_messages', now', t[1], t[2], t[3])]_vars

(***************************************************************************)
(* The getters of ChatCacheService on the message cache and on the         *)
(* channel-data cache, between writes and the passing of time.  The caches *)
(* hold ReadCacheSize entries, which stands for MAX_CACHE_SIZE.  The value *)
(* of a link is 0 for the entry a getter or _ensure_* created and counts   *)
(* the writes made to it after that.                                       *)
(***************************************************************************)
ReadKeys == CacheKeys \cup {<<"u2", "ch1">>}

\* the keys a cache reports as present at the time t
LiveKeys(links, t) == {k \in ReadKeys : TTLContains(links, k, t)}

\* _ensure_cache_exists lines 52-58 and _ensure_channel_data_cache_exists
\* lines 383-399: a key that is not in the cache is set to an empty entry
ensure_exists(links, k, t) ==
    IF TTLContains(links, k, t) THEN links
    ELSE TTLSetItem(links, k, 0, t, ReadCacheSize, TTL_SECONDS)

\* get_message_cache line 99 and get_channel_data line 450: the getter
\* begins with the _ensure_* call, then reads the entry
get_with_ensure(links, k, t) == ensure_exists(links, k, t)

\* what the actions of SpecRead leave alone
readRest == <<dedupVars, metaVars, turnVars, docVars, msgVars, charVars, chanVars,
              createVars, level_eval, modeVars, plugVars, character_other,
              delta_sum, aiVars, tier_eval, turn_hist, cache_turns>>

\* store_chat_history: the entry is ensured and its history replaced
PutMessages(k) ==
    /\ read_ops < MaxReads
    /\ read_ops' = read_ops + 1
    /\ message_links' = change_in_place(ensure_exists(message_links, k, cache_now),
                                        k, cache_now)
    /\ last_read' = [op |-> "store_chat_history", key |-> k,
                     absent |-> ~TTLContains(message_links, k, cache_now)]
    /\ UNCHANGED <<channel_links, cache_now>>
    /\ UNCHANGED readRest

\* store_channel_data: the key is set to the data
PutChannelData(k) ==
    /\ read_ops < MaxReads
    /\ read_ops' = read_ops + 1
    /\ channel_links' = TTLSetItem(channel_links, k, 1, cache_now, ReadCacheSize,
                                   TTL_SECONDS)
    /\ last_read' = [op |-> "store_channel_data", key |-> k,
                     absent |-> ~TTLContains(channel_links, k, cache_now)]
    /\ UNCHANGED <<message_links, cache_now>>
    /\ UNCHANGED readRest

\* get_message_cache
GetMessageCache(k) ==
    /\ read_ops < MaxReads
    /\ read_ops' = read_ops + 1
    /\ message_links' = get_with_ensure(message_links, k, cache_now)
    /\ last_read' = [op |-> "get_message_cache", key |-> k,
                     absent |-> ~TTLContains(message_links, k, cache_now)]
    /\ UNCHANGED <<channel_links, cache_now>>
    /\ UNCHANGED readRest

\* get_channel_data
GetChannelData(k) ==
    /\ read_ops < MaxReads
    /\ read_ops' = read_ops + 1
    /\ channel_links' = get_with_ensure(channel_links, k, cache_now)
    /\ last_read' = [op |-> "get_channel_data", key |-> k,
                     absent |-> ~TTLContains(channel_links, k, cache_now)]
    /\ UNCHANGED <<message_links, cache_now>>
    /\ UNCHANGED readRest

NextRead ==
    \/ \E k \in ReadKeys : PutMessages(k)
    \/ \E k \in ReadKeys : PutChannelData(k)
    \/ \E k \in ReadKeys : GetMessageCache(k)
    \/ \E k \in ReadKeys : GetChannelData(k)
    \/ CacheTick

SpecRead == Init /\ [][NextRead]_vars

\* C40: a call of get_message_cache or get_channel_data for a key that is
\* absent leaves the keys present in both caches as they were: the key still
\* is absent for has_messages_history_cache and has_channel_data_cache, and
\* no other key has left its cache.
C40_ReadOfAbsentKeyKeepsKeys ==
    [][( /\ read_ops' = read_ops + 1
         /\ last_read'.op \in {"get_message_cache", "get_channel_data"}
         /\ last_read'.absent )
          => /\ LiveKeys(message_links', cache_now') = LiveKeys(message_links, cache_now)
             /\ LiveKeys(channel_links', cache_now') = LiveKeys(channel_links, cache_now)]_vars
=============================================================================
